---- MODULE Spec2Model ----
(***************************************************************************)
(* Auto-tagger Lambda (Exercise-2/lambda_function.py): identity            *)
(* extraction, the dispatcher process_event / lambda_handler, the Tag      *)
(* Applicators and the AWS tag state they act on.                          *)
(*                                                                         *)
(* Python values are encoded as one-field records so that values of       *)
(* different Python types can be compared:                                 *)
(*   None          [none |-> TRUE]                                         *)
(*   str           [str  |-> <<tokens>>]   a string is its token sequence; *)
(*                                         the separators ".", "/", ":"    *)
(*                                         and "_" are tokens of their own *)
(*   dict          [dict |-> f]            f a function from key names     *)
(*   list          [list |-> <<...>>]                                      *)
(* A key that is absent from a dict is absent from DOMAIN f.               *)
(***************************************************************************)
EXTENDS Integers, Sequences, FiniteSets, TLC

VARIABLES
    awsTags,      \* AWS side: resource identifier -> tag dict of that resource
    CLIENTS,      \* lambda_function.CLIENTS: client_key -> client
    clock,        \* wall clock read by datetime.utcnow()
    event,        \* the event of the last invocation
    result,       \* outcome of the last process_event call (return value or raise)
    response,     \* return value of the last lambda_handler call
    calls,        \* applicator invocations and AWS API calls of the last invocation
    tagsBefore,   \* awsTags as it was before the last invocation
    identity,     \* outcome of get_user_identity(event) in the identity specification
    ctx,          \* concurrent execution contexts running tag_s3_bucket
    written,      \* tags that some writer has successfully put on the shared bucket
    callers,      \* threads of one process inside get_client
    constructed,  \* the client objects boto3.client has constructed so far
    eventAfter,   \* the event object as the last invocation left it
    iam,          \* the IAM account the user provisioner acts on
    history,      \* the provisioner's method calls so far, with their outcomes
    defaultTags,  \* CONFIG['default_tags'] as the process holds it
    cleaned       \* a run of cleanup.py: what it was given and what it did

vars == <<awsTags, CLIENTS, clock, event, result, response, calls, tagsBefore,
          identity, ctx, written, callers, constructed, eventAfter, iam, history,
          defaultTags, cleaned>>

-----------------------------------------------------------------------------
(* Bounds of the model *)

\* number of invocations in one behaviour (each reads a later clock value)
MaxClock == 2

\* tags another actor may put on the shared bucket in the concurrent specification
MaxOtherTags == 1

\* get_client calls one thread makes in the cache specification
MaxCalls == 2

\* method calls of the provisioner in one behaviour
MaxOps == 4

\* access keys issued in one behaviour against a faulty service
MaxIssued == 2

\* oldest key age followed, in half days
MaxAge == 4

\* operations the services reject during one run of cleanup.py
MaxRejected == 2

-----------------------------------------------------------------------------
(* Python values *)

None == [none |-> TRUE]

Str(t) == [str |-> t]

Dict(f) == [dict |-> f]

List(s) == [list |-> s]

EmptyDict == Dict([k \in {} |-> None])

IsNone(v) == DOMAIN v = {"none"}

IsStr(v) == DOMAIN v = {"str"}

IsDict(v) == DOMAIN v = {"dict"}

IsList(v) == DOMAIN v = {"list"}

\* bool(v) for the value kinds above
Truthy(v) ==
    IF IsStr(v) THEN v.str # <<>>
    ELSE IF IsDict(v) THEN DOMAIN v.dict # {}
    ELSE IF IsList(v) THEN v.list # <<>>
    ELSE FALSE

\* d.get(k, default) for a dict d
PyGet(d, k, default) == IF k \in DOMAIN d.dict THEN d.dict[k] ELSE default

\* {**a, **b} and a.update(b) on tag dicts (functions from tag key to value)
DictUpdate(a, b) ==
    [k \in (DOMAIN a) \cup (DOMAIN b) |-> IF k \in DOMAIN b THEN b[k] ELSE a[k]]

NoTags == [k \in {} |-> None]

\* outcome of a call: a returned value or a raised exception
Return(v) == [raised |-> FALSE, value |-> v]

Raise(exc) == [raised |-> TRUE, exc |-> exc]

RECURSIVE SplitTokens(_, _)
\* str.split(sep) on token sequences: the list of the pieces between separators
SplitTokens(t, sep) ==
    IF t = <<>> THEN << <<>> >>
    ELSE LET rest == SplitTokens(Tail(t), sep)
         IN IF Head(t) = sep
              THEN << <<>> >> \o rest
              ELSE << <<Head(t)>> \o Head(rest) >> \o Tail(rest)

\* sep in s
Contains(t, sep) == \E i \in 1..Len(t) : t[i] = sep

Last(s) == s[Len(s)]

unknown == Str(<<"unknown">>)

\* datetime.utcnow().isoformat() + 'Z' at clock value now
UtcNow(now) == Str(<<"utc", ToString(now), "Z">>)

-----------------------------------------------------------------------------
(* Configuration *)

\* CONFIG['excluded_services'] with EXCLUDED_SERVICES unset
excluded_services == {Str(<<"cloudtrail">>), Str(<<"logs">>)}

\* CONFIG['max_retry_attempts'] with MAX_RETRY_ATTEMPTS unset; no function reads it
max_retry_attempts == 3

\* CONFIG['default_tags']
default_tags == [AutoTagged |-> Str(<<"true">>), ManagedBy |-> Str(<<"AutoTagger">>)]

-----------------------------------------------------------------------------
(* Identity Extractor *)

IAMUser == Str(<<"IAMUser">>)

AssumedRole == Str(<<"AssumedRole">>)

Root == Str(<<"Root">>)

\* the chain user_identity.get('sessionContext', {}).get('sessionIssuer', {}).get('userName')
session_issuer_name(user_identity) ==
    LET sc == PyGet(user_identity, "sessionContext", EmptyDict)
    IN IF ~IsDict(sc) THEN Raise("AttributeError")
       ELSE LET si == PyGet(sc, "sessionIssuer", EmptyDict)
            IN IF ~IsDict(si) THEN Raise("AttributeError")
               ELSE Return(PyGet(si, "userName", None))

\* the AssumedRole branch: the issuer's name, else the last '/' piece of CreatedBy
assumed_role_name(user_identity, created_by) ==
    LET sn == session_issuer_name(user_identity)
    IN IF sn.raised THEN sn
       ELSE IF Truthy(sn.value) THEN sn
       ELSE IF ~IsStr(created_by) THEN Raise("AttributeError")
       ELSE Return(Str(Last(SplitTokens(created_by.str, "/"))))

\* a variant without the Root branch
created_by_user_no_root(user_identity, created_by) ==
    LET type == PyGet(user_identity, "type", None)
    IN IF type = IAMUser THEN Return(PyGet(user_identity, "userName", unknown))
       ELSE IF type = AssumedRole THEN assumed_role_name(user_identity, created_by)
       ELSE Return(unknown)

\* the if / elif chain that sets identity_info['CreatedByUser']
created_by_user(user_identity, created_by) ==
    LET type == PyGet(user_identity, "type", None)
    IN IF type = IAMUser THEN Return(PyGet(user_identity, "userName", unknown))
       ELSE IF type = AssumedRole THEN assumed_role_name(user_identity, created_by)
       ELSE IF type = Root THEN Return(Str(<<"root">>))
       ELSE Return(unknown)

get_user_identity(ev, now) ==
    LET detail == PyGet(ev, "detail", EmptyDict)
    IN IF ~IsDict(detail) THEN Raise("AttributeError")
       ELSE
       LET user_identity == PyGet(detail, "userIdentity", EmptyDict)
       IN IF ~IsDict(user_identity) THEN Raise("AttributeError")
          ELSE
          LET identity_info ==
                  [CreatedBy          |-> PyGet(user_identity, "arn", unknown),
                   CreatedByUser      |-> unknown,
                   CreatedByType      |-> PyGet(user_identity, "type", unknown),
                   CreatedByAccountId |-> PyGet(user_identity, "accountId", unknown),
                   CreatedAt          |-> PyGet(detail, "eventTime", UtcNow(now))]
              name == created_by_user(user_identity, identity_info.CreatedBy)
          IN IF name.raised THEN name
             ELSE Return([identity_info EXCEPT !.CreatedByUser = name.value])

-----------------------------------------------------------------------------
(* Service Client Cache *)

\* f"{service_name}_{region or 'default'}"
client_key(service_name, region) ==
    Str(<<service_name, "_">> \o (IF Truthy(region) THEN region.str ELSE <<"default">>))

\* boto3.client(service_name, region_name=region) / boto3.client(service_name)
boto3_client(service_name, region) ==
    [service |-> service_name, region |-> IF Truthy(region) THEN region ELSE None]

\* get_client: the world w with the client for (service_name, region) cached
get_client(w, service_name, region) ==
    LET key == client_key(service_name, region)
    IN IF key \in DOMAIN w.clients THEN w
       ELSE [w EXCEPT !.clients = (key :> boto3_client(service_name, region)) @@ @]

-----------------------------------------------------------------------------
(* AWS tagging APIs.  A world w is [aws, clients, calls]; faults is the set *)
(* of [op, target] calls that the service rejects with a ClientError.       *)

\* [{'Key': k, 'Value': v} for k, v in tags.items()]
TagList(tags) == {[Key |-> k, Value |-> tags[k]] : k \in DOMAIN tags}

\* {tag['Key']: tag['Value'] for tag in tag_set}
FromTagList(tl) ==
    [k \in {t.Key : t \in tl} |-> (CHOOSE t \in tl : t.Key = k).Value]

\* botocore validates parameters before sending: every tag value must be a string
ParamValid(tags) == \A k \in DOMAIN tags : IsStr(tags[k])

ApiEntry(op, target, tags, ok) ==
    [kind |-> "api", op |-> op, target |-> target, tags |-> tags, ok |-> ok]

ApplicatorEntry(op, target, tags, ok) ==
    [kind |-> "applicator", op |-> op, target |-> target, tags |-> tags, ok |-> ok]

\* exception raised by the call op(target, tags), "" when it succeeds
ApiError(w, op, target, tags, faults) ==
    IF ~ParamValid(tags) THEN "ParamValidationError"
    ELSE IF [op |-> op, target |-> target] \in faults THEN "ClientError"
    ELSE IF target \notin DOMAIN w.aws THEN "ClientError"
    ELSE ""

\* a variant in which the service acknowledges the call without storing the tags
UpsertCall_not_stored(w, op, target, tags, faults) ==
    LET exc == ApiError(w, op, target, tags, faults)
    IN [exc |-> exc,
        w   |-> [w EXCEPT !.calls = Append(@, ApiEntry(op, target, tags, exc = ""))]]

\* a tagging API that adds or overwrites the given tags on the resource
\* (ec2.create_tags, rds.add_tags_to_resource, lambda/dynamodb tag_resource)
UpsertCall(w, op, target, tags, faults) ==
    LET exc == ApiError(w, op, target, tags, faults)
        logged == [w EXCEPT !.calls = Append(@, ApiEntry(op, target, tags, exc = ""))]
    IN [exc |-> exc,
        w   |-> IF exc = "" THEN [logged EXCEPT !.aws[target] = DictUpdate(@, tags)]
                ELSE logged]

\* s3.get_bucket_tagging: the TagSet, or NoSuchTagSet when the bucket has none
s3_get_bucket_tagging(w, bucket_name, faults) ==
    LET exc == IF [op |-> "s3.get_bucket_tagging", target |-> bucket_name] \in faults
                 THEN "ClientError"
               ELSE IF bucket_name \notin DOMAIN w.aws THEN "ClientError"
               ELSE IF DOMAIN w.aws[bucket_name] = {} THEN "NoSuchTagSet"
               ELSE ""
    IN [exc    |-> exc,
        TagSet |-> IF exc = "" THEN TagList(w.aws[bucket_name]) ELSE {},
        w      |-> [w EXCEPT !.calls =
                       Append(@, ApiEntry("s3.get_bucket_tagging", bucket_name, NoTags, exc = ""))]]

\* a variant in which the service adds the tags to the collection it holds
s3_put_bucket_tagging_upsert(w, bucket_name, tag_set, faults) ==
    UpsertCall(w, "s3.put_bucket_tagging", bucket_name, FromTagList(tag_set), faults)

\* s3.put_bucket_tagging: replaces the bucket's whole tag collection
s3_put_bucket_tagging(w, bucket_name, tag_set, faults) ==
    LET tags == FromTagList(tag_set)
        exc == ApiError(w, "s3.put_bucket_tagging", bucket_name, tags, faults)
        logged == [w EXCEPT !.calls =
                      Append(@, ApiEntry("s3.put_bucket_tagging", bucket_name, tags, exc = ""))]
    IN [exc |-> exc,
        w   |-> IF exc = "" THEN [logged EXCEPT !.aws[bucket_name] = tags] ELSE logged]

FunctionArnOf(function_name) ==
    Str(<<"arn", ":", "aws", ":", "lambda", ":", "function", ":">> \o function_name.str)

TableArnOf(table_name) ==
    Str(<<"arn", ":", "aws", ":", "dynamodb", ":", "table", "/">> \o table_name.str)

\* a lookup call (lambda.get_function, dynamodb.describe_table) answering with an ARN
LookupCall(w, op, name, arn, faults) ==
    LET exc == IF [op |-> op, target |-> name] \in faults THEN "ClientError"
               ELSE IF arn \notin DOMAIN w.aws THEN "ClientError"
               ELSE ""
    IN [exc |-> exc, arn |-> arn,
        w   |-> [w EXCEPT !.calls = Append(@, ApiEntry(op, name, NoTags, exc = ""))]]

-----------------------------------------------------------------------------
(* Tag Applicators: each returns [exc, w], exc = "" when it returns normally *)

Applied(op, target, tags, r) ==
    [exc |-> r.exc,
     w   |-> [r.w EXCEPT !.calls = Append(@, ApplicatorEntry(op, target, tags, r.exc = ""))]]

\* a variant that issues the call a second time when the service rejects it
tag_ec2_resource_retried(w, resource_id, resource_type, tags, region, faults) ==
    LET w1 == get_client(w, "ec2", region)
        first == UpsertCall(w1, "ec2.create_tags", resource_id, tags, faults)
    IN Applied("tag_ec2_resource", resource_id, tags,
               IF first.exc = "" THEN first
               ELSE UpsertCall(first.w, "ec2.create_tags", resource_id, tags, faults))

tag_ec2_resource(w, resource_id, resource_type, tags, region, faults) ==
    LET w1 == get_client(w, "ec2", region)
        tag_list == TagList(tags)
    IN Applied("tag_ec2_resource", resource_id, tags,
               UpsertCall(w1, "ec2.create_tags", resource_id, FromTagList(tag_list), faults))

\* a variant that does not use what the read step returned
s3_existing_tags_ignored(got) == NoTags

\* existing_tags after the read step of tag_s3_bucket
s3_existing_tags(got) ==
    IF got.exc = "" THEN FromTagList(got.TagSet) ELSE NoTags

\* a variant that treats every failure of the read step as an empty tag set
tag_s3_bucket_read_errors_ignored(w, bucket_name, tags, region, faults) ==
    LET w1 == get_client(w, "s3", region)
        got == s3_get_bucket_tagging(w1, bucket_name, faults)
        existing_tags == DictUpdate(s3_existing_tags(got), tags)
        tag_set == TagList(existing_tags)
    IN Applied("tag_s3_bucket", bucket_name, tags,
               s3_put_bucket_tagging(got.w, bucket_name, tag_set, faults))

tag_s3_bucket(w, bucket_name, tags, region, faults) ==
    LET w1 == get_client(w, "s3", region)
        got == s3_get_bucket_tagging(w1, bucket_name, faults)
    IN IF got.exc \notin {"", "NoSuchTagSet"}
         THEN Applied("tag_s3_bucket", bucket_name, tags, [exc |-> got.exc, w |-> got.w])
       ELSE LET existing_tags == DictUpdate(s3_existing_tags(got), tags)
                tag_set == TagList(existing_tags)
            IN Applied("tag_s3_bucket", bucket_name, tags,
                       s3_put_bucket_tagging(got.w, bucket_name, tag_set, faults))

tag_rds_resource(w, resource_arn, tags, region, faults) ==
    LET w1 == get_client(w, "rds", region)
        tag_list == TagList(tags)
    IN Applied("tag_rds_resource", resource_arn, tags,
               UpsertCall(w1, "rds.add_tags_to_resource", resource_arn,
                          FromTagList(tag_list), faults))

\* function_name.startswith('arn:')
StartsWithArn(name) == Len(name.str) >= 2 /\ name.str[1] = "arn" /\ name.str[2] = ":"

\* a variant that tags the identifier it is given without resolving it
tag_lambda_function_no_lookup(w, function_name, tags, region, faults) ==
    Applied("tag_lambda_function", function_name, tags,
            UpsertCall(get_client(w, "lambda", region), "lambda.tag_resource",
                       function_name, tags, faults))

tag_lambda_function(w, function_name, tags, region, faults) ==
    LET w1 == get_client(w, "lambda", region)
    IN IF StartsWithArn(function_name)
         THEN Applied("tag_lambda_function", function_name, tags,
                      UpsertCall(w1, "lambda.tag_resource", function_name, tags, faults))
       ELSE LET got == LookupCall(w1, "lambda.get_function", function_name,
                                  FunctionArnOf(function_name), faults)
            IN IF got.exc # ""
                 THEN Applied("tag_lambda_function", function_name, tags,
                              [exc |-> got.exc, w |-> got.w])
               ELSE Applied("tag_lambda_function", function_name, tags,
                            UpsertCall(got.w, "lambda.tag_resource", got.arn, tags, faults))

tag_dynamodb_table(w, table_name, tags, region, faults) ==
    LET w1 == get_client(w, "dynamodb", region)
        got == LookupCall(w1, "dynamodb.describe_table", table_name,
                          TableArnOf(table_name), faults)
    IN IF got.exc # ""
         THEN Applied("tag_dynamodb_table", table_name, tags, [exc |-> got.exc, w |-> got.w])
       ELSE LET tag_list == TagList(tags)
            IN Applied("tag_dynamodb_table", table_name, tags,
                       UpsertCall(got.w, "dynamodb.tag_resource", got.arn,
                                  FromTagList(tag_list), faults))

-----------------------------------------------------------------------------
(* Dispatcher *)

AmazonSource(service) == Str(<<service, ".", "amazonaws", ".", "com">>)

EventName(name) == Str(<<name>>)

\* os.environ.get('AWS_REGION', 'us-east-1') in the Lambda runtime
default_region == Str(<<"us-east-1">>)

\* f"{prefix}:{kind}:{identifier}"
ResourceLabel(prefix, kind, identifier) ==
    Str(<<prefix, ":", kind, ":">> \o identifier.str)

\* outcome of a branch of the try block: the exception that left it ("" for none),
\* the labels appended to tagged_resources and the world it leaves
Branch(exc, tagged, w) == [exc |-> exc, tagged |-> tagged, w |-> w]

\* the pattern  if identifier: tag_x(identifier, ...); tagged_resources.append(label)
\* where r is the outcome of the applicator call
TagAndAppend(w, identifier, r, label) ==
    IF ~Truthy(identifier) THEN Branch("", <<>>, w)
    ELSE IF r.exc # "" THEN Branch(r.exc, <<>>, r.w)
    ELSE Branch("", <<label>>, r.w)

RECURSIVE tag_instances(_, _, _, _, _, _)
\* the loop  for instance in instances  of the RunInstances branch
tag_instances(instances, w, tagged, all_tags, aws_region, faults) ==
    IF instances = <<>> THEN Branch("", tagged, w)
    ELSE LET instance == Head(instances)
         IN IF ~IsDict(instance) THEN Branch("AttributeError", tagged, w)
            ELSE LET instance_id == PyGet(instance, "instanceId", None)
                 IN IF ~Truthy(instance_id)
                      THEN tag_instances(Tail(instances), w, tagged, all_tags, aws_region, faults)
                    ELSE LET r == tag_ec2_resource(w, instance_id, "instance", all_tags,
                                                   aws_region, faults)
                         IN IF r.exc # "" THEN Branch(r.exc, tagged, r.w)
                            ELSE tag_instances(Tail(instances), r.w,
                                     Append(tagged, ResourceLabel("ec2", "instance", instance_id)),
                                     all_tags, aws_region, faults)

\* the RunInstances branch
run_instances_branch(detail, w, all_tags, aws_region, faults) ==
    LET response_elements == PyGet(detail, "responseElements", EmptyDict)
    IN IF ~Truthy(response_elements) THEN Branch("", <<>>, w)
       ELSE IF ~IsDict(response_elements) THEN Branch("AttributeError", <<>>, w)
       ELSE LET instancesSet == PyGet(response_elements, "instancesSet", EmptyDict)
            IN IF ~IsDict(instancesSet) THEN Branch("AttributeError", <<>>, w)
               ELSE LET instances == PyGet(instancesSet, "items", List(<<>>))
                    IN IF ~IsList(instances) THEN Branch("TypeError", <<>>, w)
                       ELSE tag_instances(instances.list, w, <<>>, all_tags, aws_region, faults)

\* a branch that tags the one EC2 resource named by response_elements[key]
ec2_single_branch(detail, key, resource_type, w, all_tags, aws_region, faults) ==
    LET response_elements == PyGet(detail, "responseElements", EmptyDict)
    IN IF ~IsDict(response_elements) THEN Branch("AttributeError", <<>>, w)
       ELSE LET identifier == PyGet(response_elements, key, None)
            IN TagAndAppend(w, identifier,
                   tag_ec2_resource(w, identifier, resource_type, all_tags, aws_region, faults),
                   ResourceLabel("ec2", resource_type, identifier))

\* a branch that tags the EC2 resource named by response_elements[outer][key]
ec2_nested_branch(detail, outer, key, resource_type, w, all_tags, aws_region, faults) ==
    LET response_elements == PyGet(detail, "responseElements", EmptyDict)
    IN IF ~IsDict(response_elements) THEN Branch("AttributeError", <<>>, w)
       ELSE LET inner == PyGet(response_elements, outer, EmptyDict)
            IN IF ~IsDict(inner) THEN Branch("AttributeError", <<>>, w)
               ELSE LET identifier == PyGet(inner, key, None)
                    IN TagAndAppend(w, identifier,
                           tag_ec2_resource(w, identifier, resource_type, all_tags,
                                            aws_region, faults),
                           ResourceLabel("ec2", resource_type, identifier))

\* the CreateBucket branch
s3_branch(detail, w, all_tags, aws_region, faults) ==
    LET request_parameters == PyGet(detail, "requestParameters", EmptyDict)
    IN IF ~IsDict(request_parameters) THEN Branch("AttributeError", <<>>, w)
       ELSE LET bucket_name == PyGet(request_parameters, "bucketName", None)
            IN TagAndAppend(w, bucket_name,
                   tag_s3_bucket(w, bucket_name, all_tags, aws_region, faults),
                   ResourceLabel("s3", "bucket", bucket_name))

\* the CreateDBInstance / CreateDBCluster branch
rds_branch(detail, event_name, w, all_tags, aws_region, faults) ==
    LET response_elements == PyGet(detail, "responseElements", EmptyDict)
        key == IF event_name = EventName("CreateDBInstance")
                 THEN "dBInstanceArn" ELSE "dBClusterArn"
        kind == IF event_name = EventName("CreateDBInstance") THEN "instance" ELSE "cluster"
    IN IF ~IsDict(response_elements) THEN Branch("AttributeError", <<>>, w)
       ELSE LET arn == PyGet(response_elements, key, None)
            IN TagAndAppend(w, arn,
                   tag_rds_resource(w, arn, all_tags, aws_region, faults),
                   ResourceLabel("rds", kind, arn))

\* a variant of the CreateFunction20150331 branch that hands the function to the
\* DynamoDB applicator
lambda_branch_other_family(detail, w, all_tags, aws_region, faults) ==
    LET response_elements == PyGet(detail, "responseElements", EmptyDict)
    IN IF ~IsDict(response_elements) THEN Branch("AttributeError", <<>>, w)
       ELSE LET function_name == PyGet(response_elements, "functionName", None)
            IN TagAndAppend(w, function_name,
                   tag_dynamodb_table(w, function_name, all_tags, aws_region, faults),
                   ResourceLabel("lambda", "function", function_name))

\* the CreateFunction20150331 branch
lambda_branch(detail, w, all_tags, aws_region, faults) ==
    LET response_elements == PyGet(detail, "responseElements", EmptyDict)
    IN IF ~IsDict(response_elements) THEN Branch("AttributeError", <<>>, w)
       ELSE LET function_name == PyGet(response_elements, "functionName", None)
            IN TagAndAppend(w, function_name,
                   tag_lambda_function(w, function_name, all_tags, aws_region, faults),
                   ResourceLabel("lambda", "function", function_name))

\* the CreateTable branch
dynamodb_branch(detail, w, all_tags, aws_region, faults) ==
    LET response_elements == PyGet(detail, "responseElements", EmptyDict)
    IN IF ~IsDict(response_elements) THEN Branch("AttributeError", <<>>, w)
       ELSE LET table_description == PyGet(response_elements, "tableDescription", EmptyDict)
            IN IF ~IsDict(table_description) THEN Branch("AttributeError", <<>>, w)
               ELSE LET table_name == PyGet(table_description, "tableName", None)
                    IN TagAndAppend(w, table_name,
                           tag_dynamodb_table(w, table_name, all_tags, aws_region, faults),
                           ResourceLabel("dynamodb", "table", table_name))

\* the if / elif chain inside the try block of process_event
route(detail, event_source, event_name, w, all_tags, aws_region, faults) ==
    LET ec2 == event_source = AmazonSource("ec2")
    IN IF ec2 /\ event_name = EventName("RunInstances")
         THEN run_instances_branch(detail, w, all_tags, aws_region, faults)
       ELSE IF ec2 /\ event_name = EventName("CreateVolume")
         THEN ec2_single_branch(detail, "volumeId", "volume", w, all_tags, aws_region, faults)
       ELSE IF ec2 /\ event_name = EventName("CreateSecurityGroup")
         THEN ec2_single_branch(detail, "groupId", "security-group", w, all_tags,
                                aws_region, faults)
       ELSE IF event_source = AmazonSource("s3") /\ event_name = EventName("CreateBucket")
         THEN s3_branch(detail, w, all_tags, aws_region, faults)
       ELSE IF /\ event_source = AmazonSource("rds")
               /\ event_name \in {EventName("CreateDBInstance"), EventName("CreateDBCluster")}
         THEN rds_branch(detail, event_name, w, all_tags, aws_region, faults)
       ELSE IF /\ event_source = AmazonSource("lambda")
               /\ event_name = EventName("CreateFunction20150331")
         THEN lambda_branch(detail, w, all_tags, aws_region, faults)
       ELSE IF event_source = AmazonSource("dynamodb") /\ event_name = EventName("CreateTable")
         THEN dynamodb_branch(detail, w, all_tags, aws_region, faults)
       ELSE IF ec2 /\ event_name = EventName("CreateVpc")
         THEN ec2_nested_branch(detail, "vpc", "vpcId", "vpc", w, all_tags, aws_region, faults)
       ELSE IF ec2 /\ event_name = EventName("CreateSubnet")
         THEN ec2_nested_branch(detail, "subnet", "subnetId", "subnet", w, all_tags,
                                aws_region, faults)
       ELSE Branch("", <<>>, w)

\* a variant that compares the whole eventSource with the excluded names
service_token_whole(event_source) == event_source

\* event_source.split('.')[0] if '.' in event_source else event_source
service_token(event_source) ==
    IF Contains(event_source.str, ".")
      THEN Str(Head(SplitTokens(event_source.str, ".")))
      ELSE event_source

\* str(e) in the except clause: botocore's ClientError text names the error and the
\* operation ("An error occurred (...) when calling the X operation"); the other
\* exceptions carry their message alone
StrException(exc, log) ==
    LET api == {i \in 1..Len(log) : log[i].kind = "api"}
    IN [text      |-> exc,
        operation |-> IF exc = "ClientError" /\ api # {}
                        THEN log[CHOOSE i \in api : \A j \in api : j <= i].op
                        ELSE ""]

\* a variant that merges the identity tags into CONFIG['default_tags'] itself
compose_tags_in_place(defaults, user_tags) ==
    [all_tags |-> DictUpdate(defaults, user_tags),
     defaults |-> DictUpdate(defaults, user_tags)]

\* all_tags = {**CONFIG['default_tags'], **user_tags}: a new dict; the defaults
\* dict is read and stays as it is
compose_tags(defaults, user_tags) ==
    [all_tags |-> DictUpdate(defaults, user_tags), defaults |-> defaults]

\* process_event: [out, w] with out the returned result dict or the exception raised
process_event(ev, now, w, faults) ==
    LET detail == PyGet(ev, "detail", EmptyDict)
    IN IF ~IsDict(detail) THEN [out |-> Raise("AttributeError"), w |-> w]
       ELSE
       LET event_name == PyGet(detail, "eventName", Str(<<>>))
           event_source == PyGet(detail, "eventSource", Str(<<>>))
           aws_region == PyGet(detail, "awsRegion", default_region)
       IN IF ~IsStr(event_source) THEN [out |-> Raise("TypeError"), w |-> w]
          ELSE IF service_token(event_source) \in excluded_services
            THEN [out |-> Return([status |-> "skipped", reason |-> "excluded_service"]),
                  w   |-> w]
          ELSE
          LET user_tags == get_user_identity(ev, now)
          IN IF user_tags.raised THEN [out |-> user_tags, w |-> w]
             ELSE
             LET composed == compose_tags(w.defaults, user_tags.value)
                 all_tags == composed.all_tags
                 b == route(detail, event_source, event_name,
                            [w EXCEPT !.defaults = composed.defaults],
                            all_tags, aws_region, faults)
             IN IF b.exc # ""
                  THEN [out |-> Return([status       |-> "error",
                                        error        |-> StrException(b.exc, b.w.calls),
                                        event_name   |-> event_name,
                                        event_source |-> event_source]),
                        w   |-> b.w]
                  ELSE [out |-> Return([status           |-> "success",
                                        tagged_resources |-> b.tagged,
                                        tags_applied     |-> all_tags,
                                        event_name       |-> event_name,
                                        event_source     |-> event_source]),
                        w   |-> b.w]

\* the event object after a dispatch, a variant: identity_info is the userIdentity
\* object itself, so that the CreatedByUser assignment writes into the event
event_after_identity_aliased(ev, out) ==
    LET detail == PyGet(ev, "detail", EmptyDict)
    IN IF /\ IsDict(detail)
          /\ "userIdentity" \in DOMAIN detail.dict
          /\ IsDict(detail.dict["userIdentity"])
          /\ ~out.raised
          /\ "tags_applied" \in DOMAIN out.value
         THEN Dict("detail" :>
                   Dict(("userIdentity" :>
                            Dict(("CreatedByUser" :> out.value.tags_applied["CreatedByUser"])
                                 @@ detail.dict["userIdentity"].dict))
                        @@ detail.dict))
         ELSE ev

\* the event object after a dispatch.  The statements of a dispatch that write to
\* an object write to identity_info (a dict built at line 96), tagged_resources (a
\* list built at line 279), existing_tags (a dict built at lines 157-160) and
\* CLIENTS; the event and the objects reached from it are only read through .get
event_after_dispatch(ev, out) == ev

\* json.dumps(obj)
JsonDumps(obj) == [json |-> obj]

\* a variant without the except clause: an exception of process_event leaves the
\* handler and the invoking environment gets no response
lambda_handler_no_except(ev, now, w, faults) ==
    LET r == process_event(ev, now, w, faults)
    IN [response |-> IF r.out.raised
                       THEN [statusCode |-> 0, body |-> JsonDumps(None)]
                       ELSE [statusCode |-> 200, body |-> JsonDumps(r.out.value)],
        out |-> r.out,
        w   |-> r.w]

\* a variant that derives the status code from the result's status field
lambda_handler_status_from_body(ev, now, w, faults) ==
    LET r == process_event(ev, now, w, faults)
    IN [response |-> IF r.out.raised
                       THEN [statusCode |-> 500,
                             body |-> JsonDumps([status |-> "error", error |-> r.out.exc])]
                       ELSE [statusCode |-> IF r.out.value.status = "error" THEN 500 ELSE 200,
                             body |-> JsonDumps(r.out.value)],
        out |-> r.out,
        w   |-> r.w]

\* lambda_handler: [response, out, w]
lambda_handler(ev, now, w, faults) ==
    LET r == process_event(ev, now, w, faults)
    IN [response |-> IF r.out.raised
                       THEN [statusCode |-> 500,
                             body |-> JsonDumps([status |-> "error", error |-> r.out.exc])]
                       ELSE [statusCode |-> 200, body |-> JsonDumps(r.out.value)],
        out |-> r.out,
        w   |-> r.w]

-----------------------------------------------------------------------------
(* Inputs: the events handed to the handler *)

\* a dict field that is absent
Absent == [k \in {} |-> None]

\* the partial dicts {k: v} for v in values, and the one without k
Opt(k, values) == {Absent} \cup {k :> v : v \in values}

EventTime1 == Str(<<"2024-12-25T10", ":", "30", ":", "00Z">>)

UserArn == Str(<<"arn", ":", "aws", ":", "iam", ":", ":", "123456789012", ":", "user", "/", "alice">>)

RoleArn ==
    Str(<<"arn", ":", "aws", ":", "sts", ":", ":", "123456789012", ":", "assumed-role",
          "/", "Admin", "/", "session1">>)

Alice == Str(<<"alice">>)

AccountId == Str(<<"123456789012">>)

\* sessionContext sub-objects, well-formed and partial
SessionContexts ==
    {None, EmptyDict,
     Dict("sessionIssuer" :> None),
     Dict("sessionIssuer" :> EmptyDict),
     Dict("sessionIssuer" :> Dict("userName" :> Str(<<"Admin">>))),
     Dict("sessionIssuer" :> Dict("userName" :> Str(<<>>))),
     Dict("sessionIssuer" :> Dict("userName" :> None))}

\* userIdentity sub-objects: every combination of present, absent and null fields
UserIdentities ==
    {Dict(ty @@ arn @@ un @@ acc @@ sc) :
        ty  \in Opt("type", {IAMUser, AssumedRole, Root, Str(<<"FederatedUser">>), None}),
        arn \in Opt("arn", {UserArn, RoleArn, Str(<<"plain">>), Str(<<"role", "/">>), None}),
        un  \in Opt("userName", {Alice, None}),
        acc \in Opt("accountId", {AccountId}),
        sc  \in Opt("sessionContext", SessionContexts)}

\* the events of the identity specification
IdentityEvents ==
    {Dict("detail" :> Dict(ui @@ tm)) :
        ui \in Opt("userIdentity", UserIdentities \cup {None}),
        tm \in Opt("eventTime", {EventTime1})}
    \cup {Dict(Absent), Dict("detail" :> None)}


(* Events of the dispatcher specification *)

Id(name) == Str(<<name>>)

DemoBucket == Id("demo-bucket")

DbInstanceArn == Str(<<"arn", ":", "aws", ":", "rds", ":", "db", ":", "db-1">>)

DbClusterArn == Str(<<"arn", ":", "aws", ":", "rds", ":", "cluster", ":", "cl-1">>)

\* the resources that exist on the AWS side
Resources ==
    {Id("i-1"), Id("i-2"), Id("i-3"), Id("i-100"), Id("vol-1"), Id("sg-1"), Id("vpc-1"), Id("subnet-1"),
     DemoBucket, DbInstanceArn, DbClusterArn, FunctionArnOf(Id("fn-1")), TableArnOf(Id("tbl-1"))}

Instance(name) == Dict("instanceId" :> Id(name))

Items(instances) == Dict("instancesSet" :> Dict("items" :> List(instances)))

\* (eventSource, eventName, body) of the routed events; body holds responseElements
\* or requestParameters, complete, partial, null or absent
RoutedShapes ==
    {<<AmazonSource("ec2"), "RunInstances", re>> :
        re \in Opt("responseElements",
                   {Items(<<Instance("i-1"), Instance("i-2"), Instance("i-3")>>),
                    Items(<<Instance("i-1"), EmptyDict, Instance("i-2")>>),
                    Items(<<Instance("i-1"), None>>),
                    Items(<<>>), None,
                    Dict("instancesSet" :> None),
                    Dict("instancesSet" :> Dict("items" :> None))})}
    \cup {<<AmazonSource("ec2"), "CreateVolume", "responseElements" :> re>> :
        re \in {Dict("volumeId" :> Id("vol-1")), EmptyDict, None}}
    \cup {<<AmazonSource("ec2"), "CreateSecurityGroup", "responseElements" :> re>> :
        re \in {Dict("groupId" :> Id("sg-1")), None}}
    \cup {<<AmazonSource("ec2"), "CreateVpc", "responseElements" :> re>> :
        re \in {Dict("vpc" :> Dict("vpcId" :> Id("vpc-1"))), Dict("vpc" :> None)}}
    \cup {<<AmazonSource("ec2"), "CreateSubnet", "responseElements" :> re>> :
        re \in {Dict("subnet" :> Dict("subnetId" :> Id("subnet-1"))), EmptyDict}}
    \cup {<<AmazonSource("s3"), "CreateBucket", rp>> :
        rp \in Opt("requestParameters", {Dict("bucketName" :> Str(<<>>)), None})}
    \cup {<<AmazonSource("rds"), "CreateDBInstance", re>> :
        re \in Opt("responseElements", {Dict("dBInstanceArn" :> DbInstanceArn)})}
    \cup {<<AmazonSource("rds"), "CreateDBCluster", "responseElements" :> re>> :
        re \in {Dict("dBClusterArn" :> DbClusterArn), None}}
    \cup {<<AmazonSource("lambda"), "CreateFunction20150331", "responseElements" :> re>> :
        re \in {Dict("functionName" :> Id("fn-1")),
                Dict("functionName" :> FunctionArnOf(Id("fn-1"))),
                Dict("functionName" :> Id("fn-gone")), None}}
    \cup {<<AmazonSource("dynamodb"), "CreateTable", "responseElements" :> re>> :
        re \in {Dict("tableDescription" :> Dict("tableName" :> Id("tbl-1"))),
                Dict("tableDescription" :> None)}}

OneInstance == "responseElements" :> Items(<<Instance("i-1")>>)

\* events of the supported services that match no branch
UnmatchedShapes ==
    {<<AmazonSource("ec2"), "DescribeInstances", OneInstance>>,
     <<AmazonSource("sns"), "CreateTopic", Absent>>,
     <<AmazonSource("s3"), "RunInstances", OneInstance>>,
     <<Str(<<"ec2", ".", "service">>), "RunInstances",
       "responseElements" :> Items(<<Instance("i-100")>>)>>,
     <<Str(<<"ec2">>), "RunInstances", OneInstance>>}

\* events of the excluded services
ExcludedShapes ==
    {<<AmazonSource("cloudtrail"), "CreateTrail", Absent>>,
     <<AmazonSource("logs"), "CreateLogGroup", Absent>>,
     <<Str(<<"logs">>), "CreateLogGroup", Absent>>,
     <<Str(<<"cloudtrail", ".", "service">>), "RunInstances", OneInstance>>}

IamAlice ==
    Dict([type |-> IAMUser, arn |-> UserArn, accountId |-> AccountId, userName |-> Alice])

RoleAdmin ==
    Dict([type |-> AssumedRole, arn |-> RoleArn, accountId |-> AccountId,
          sessionContext |-> Dict("sessionIssuer" :> Dict("userName" :> Str(<<"Admin">>)))])

\* a principal whose record carries null fields
IamNullArn == Dict([type |-> IAMUser, arn |-> None, userName |-> Alice])

Shaped(shape, rest) ==
    Dict("detail" :> Dict(("eventSource" :> shape[1]) @@ ("eventName" :> EventName(shape[2]))
                          @@ shape[3] @@ rest))

WithAlice == ("userIdentity" :> IamAlice) @@ ("eventTime" :> EventTime1)

\* the identity, time and region parts tried with one event of each kind
Variations ==
    {("userIdentity" :> IamAlice),
     ("userIdentity" :> RoleAdmin) @@ ("eventTime" :> EventTime1),
     ("userIdentity" :> IamNullArn) @@ ("eventTime" :> EventTime1),
     ("userIdentity" :> None) @@ ("eventTime" :> EventTime1),
     "eventTime" :> EventTime1,
     WithAlice @@ ("awsRegion" :> Str(<<"eu-west-1">>)),
     WithAlice @@ ("awsRegion" :> None),
     WithAlice @@ ("awsRegion" :> Str(<<"default">>))}

VariedShapes ==
    {<<AmazonSource("ec2"), "RunInstances", OneInstance>>,
     <<AmazonSource("s3"), "CreateBucket", "requestParameters" :> Dict("bucketName" :> DemoBucket)>>}

SecurityGroupShape ==
    <<AmazonSource("ec2"), "CreateSecurityGroup",
      "responseElements" :> Dict("groupId" :> Id("sg-1"))>>

\* CreateSecurityGroup events of a role session, and of a user without eventTime
SecurityGroupEvents ==
    {Shaped(SecurityGroupShape, ("userIdentity" :> RoleAdmin) @@ ("eventTime" :> EventTime1)),
     Shaped(SecurityGroupShape, "userIdentity" :> IamAlice)}

\* unmatched and excluded events whose userIdentity is null or carries null fields
OddIdentityEvents ==
    {Shaped(<<AmazonSource("cloudtrail"), "CreateTrail", Absent>>,
            ("userIdentity" :> None) @@ ("eventTime" :> EventTime1)),
     Shaped(<<AmazonSource("ec2"), "DescribeInstances", OneInstance>>,
            ("userIdentity" :> None) @@ ("eventTime" :> EventTime1)),
     Shaped(<<AmazonSource("ec2"), "DescribeInstances", OneInstance>>,
            ("userIdentity" :> IamNullArn) @@ ("eventTime" :> EventTime1))}

\* events without the fields the dispatcher reads first
MalformedEvents ==
    {Dict(Absent), Dict("detail" :> None),
     Dict("detail" :> Dict(("eventSource" :> None) @@ ("eventName" :> EventName("RunInstances"))
                           @@ WithAlice)),
     Dict("detail" :> Dict(("eventName" :> EventName("RunInstances")) @@ OneInstance @@ WithAlice)),
     Dict("detail" :> Dict(("eventSource" :> AmazonSource("ec2")) @@ OneInstance @@ WithAlice))}

Events ==
    {Shaped(sh, WithAlice) : sh \in RoutedShapes \cup UnmatchedShapes \cup ExcludedShapes}
    \cup {Shaped(sh, v) : sh \in VariedShapes, v \in Variations \cup {WithAlice}}
    \cup SecurityGroupEvents
    \cup OddIdentityEvents
    \cup MalformedEvents

-----------------------------------------------------------------------------
(* State machine of one warm execution context: invocations in sequence *)

\* tag collections found on the resources before the first invocation
PreExistingTags ==
    {NoTags,
     [Environment |-> Str(<<"prod">>)],
     [Environment |-> Str(<<"prod">>), CreatedByUser |-> Str(<<"bob">>),
      AutoTagged |-> Str(<<"false">>)]}

NotCalled == Return(None)

NoResponse == [statusCode |-> 0, body |-> JsonDumps(None)]

Contexts == {1, 2}

IdleContext ==
    [pc |-> "idle", event |-> None, tags |-> NoTags, existing_tags |-> NoTags,
     clients |-> Absent]

\* an IAM account without users, keys or devices
\* cleanup.py has not run
NotCleaned == [done |-> FALSE]

EmptyAccount ==
    [users |-> {}, memberships |-> {}, attached |-> {}, inline |-> {}, keys |-> {},
     login |-> {}, devices |-> {}, issued |-> 0]

Threads == {1, 2}

\* a thread that is not inside get_client
IdleCaller ==
    [pc |-> "idle", service_name |-> "", region |-> None, returned |-> NotCalled, n |-> 0]

Init ==
    /\ \E pre \in PreExistingTags : awsTags = [r \in Resources |-> pre]
    /\ CLIENTS = Absent
    /\ clock = 0
    /\ event = None
    /\ result = NotCalled
    /\ response = NoResponse
    /\ calls = <<>>
    /\ tagsBefore = awsTags
    /\ identity = NotCalled
    /\ ctx = [c \in Contexts |-> IdleContext]
    /\ written = {}
    /\ callers = [t \in Threads |-> IdleCaller]
    /\ constructed = {}
    /\ eventAfter = None
    /\ iam = EmptyAccount
    /\ history = <<>>
    /\ defaultTags = default_tags
    /\ cleaned = NotCleaned

World == [aws |-> awsTags, clients |-> CLIENTS, calls |-> <<>>, defaults |-> defaultTags]

\* the AWS API calls that the invocation of ev issues when none is rejected
FaultPoints(ev) ==
    LET dry == process_event(ev, clock, World, {}).w.calls
    IN {[op |-> dry[i].op, target |-> dry[i].target] :
            i \in {j \in 1..Len(dry) : dry[j].kind = "api"}}

\* one invocation of lambda_handler, the service rejecting the calls in faults
Invoke ==
    /\ clock < MaxClock
    /\ \E ev \in Events : \E faults \in SUBSET FaultPoints(ev) :
         \E r \in {lambda_handler(ev, clock, World, faults)} :
            /\ event' = ev
            /\ eventAfter' = event_after_dispatch(ev, r.out)
            /\ result' = r.out
            /\ response' = r.response
            /\ calls' = r.w.calls
            /\ awsTags' = r.w.aws
            /\ CLIENTS' = r.w.clients
            /\ defaultTags' = r.w.defaults
    /\ tagsBefore' = awsTags
    /\ clock' = clock + 1
    /\ UNCHANGED <<identity, ctx, written, callers, constructed, iam, history, cleaned>>

Next == Invoke

Spec == Init /\ [][Next]_vars

-----------------------------------------------------------------------------
(* Identity specification: get_user_identity applied to every input shape *)

InitIdentity ==
    /\ event \in IdentityEvents
    /\ clock \in 0..MaxClock
    /\ identity = NotCalled
    /\ awsTags = [r \in Resources |-> NoTags]
    /\ CLIENTS = Absent
    /\ result = NotCalled
    /\ response = NoResponse
    /\ calls = <<>>
    /\ tagsBefore = awsTags
    /\ ctx = [c \in Contexts |-> IdleContext]
    /\ written = {}
    /\ callers = [t \in Threads |-> IdleCaller]
    /\ constructed = {}
    /\ eventAfter = None
    /\ iam = EmptyAccount
    /\ history = <<>>
    /\ defaultTags = default_tags
    /\ cleaned = NotCleaned

ExtractIdentity ==
    /\ identity = NotCalled
    /\ identity' = get_user_identity(event, clock)
    /\ UNCHANGED <<awsTags, CLIENTS, clock, event, result, response, calls, tagsBefore,
                   ctx, written, callers, constructed, eventAfter, iam, history,
                   defaultTags, cleaned>>

NextIdentity == ExtractIdentity

SpecIdentity == InitIdentity /\ [][NextIdentity]_vars

-----------------------------------------------------------------------------
(* Concurrent specification: two execution contexts run tag_s3_bucket on   *)
(* the same bucket while another actor tags it too.  The read and the      *)
(* write of tag_s3_bucket are separate calls to S3, hence separate steps.  *)

BucketShape ==
    <<AmazonSource("s3"), "CreateBucket", "requestParameters" :> Dict("bucketName" :> DemoBucket)>>

\* the CreateBucket events the concurrent contexts dispatch
ConcurrentEvents ==
    {Shaped(BucketShape, WithAlice),
     Shaped(BucketShape, ("userIdentity" :> RoleAdmin) @@ ("eventTime" :> EventTime1))}

\* tags another actor puts on the bucket
OtherTags ==
    {[Key |-> "Owner", Value |-> Str(<<"team-a">>)],
     [Key |-> "CostCenter", Value |-> Str(<<"42">>)]}

OtherKeys == {t.Key : t \in OtherTags}

\* a fault set that rejects the call op(target) or lets it pass
MaybeFault(op, target) == {{}, {[op |-> op, target |-> target]}}

\* context c receives a CreateBucket event and runs process_event up to and
\* including the read and merge steps of tag_s3_bucket
BeginTagging(c) ==
    /\ ctx[c].pc = "idle"
    /\ \E ev \in ConcurrentEvents :
       \E faults \in MaybeFault("s3.get_bucket_tagging", DemoBucket) :
         LET all_tags == DictUpdate(default_tags, get_user_identity(ev, clock).value)
             w1 == get_client([aws |-> awsTags, clients |-> ctx[c].clients, calls |-> <<>>],
                              "s3", default_region)
             got == s3_get_bucket_tagging(w1, DemoBucket, faults)
         IN ctx' = [ctx EXCEPT ![c] =
                      [pc            |-> IF got.exc \in {"", "NoSuchTagSet"}
                                           THEN "write" ELSE "failed",
                       event         |-> ev,
                       tags          |-> all_tags,
                       existing_tags |-> DictUpdate(s3_existing_tags(got), all_tags),
                       clients       |-> w1.clients]]
    /\ UNCHANGED <<awsTags, CLIENTS, clock, event, result, response, calls, tagsBefore,
                   identity, written, callers, constructed, eventAfter, iam, history,
                   defaultTags, cleaned>>

\* context c writes the merged tags back and finishes its dispatch
PutTagging(c) ==
    /\ ctx[c].pc = "write"
    /\ \E faults \in MaybeFault("s3.put_bucket_tagging", DemoBucket) :
       \E put \in {s3_put_bucket_tagging([aws |-> awsTags, clients |-> ctx[c].clients,
                                          calls |-> <<>>],
                                         DemoBucket, TagList(ctx[c].existing_tags), faults)} :
         /\ awsTags' = put.w.aws
         /\ ctx' = [ctx EXCEPT ![c].pc = IF put.exc = "" THEN "done" ELSE "failed"]
         /\ written' = IF put.exc = "" THEN written \cup TagList(ctx[c].tags) ELSE written
    /\ UNCHANGED <<CLIENTS, clock, event, result, response, calls, tagsBefore, identity,
                   callers, constructed, eventAfter, iam, history, defaultTags,
                   cleaned>>

\* another actor adds one tag to the bucket through its own, atomic, call
OtherActorTag ==
    /\ Cardinality({t \in written : t.Key \in OtherKeys}) < MaxOtherTags
    /\ \E t \in OtherTags \ written :
         /\ awsTags' = [awsTags EXCEPT ![DemoBucket] = DictUpdate(@, FromTagList({t}))]
         /\ written' = written \cup {t}
    /\ UNCHANGED <<CLIENTS, clock, event, result, response, calls, tagsBefore, identity, ctx,
                   callers, constructed, eventAfter, iam, history, defaultTags,
                   cleaned>>

NextConc ==
    \/ \E c \in Contexts : BeginTagging(c)
    \/ \E c \in Contexts : PutTagging(c)
    \/ OtherActorTag

SpecConc == Init /\ [][NextConc]_vars

-----------------------------------------------------------------------------
(* Cache specification: threads of one process call get_client on the shared  *)
(* CLIENTS dict.  The membership test, the store and the final read are       *)
(* separate dict operations, hence separate steps.                            *)

CacheServices == {"ec2", "s3"}

CacheRegions == {None, Str(<<"eu-west-1">>)}

\* a variant in which the store is lost
cache_store_lost(clients, key, client) == clients

\* CLIENTS[client_key] = client
cache_store(clients, key, client) == (key :> client) @@ clients

\* thread t calls get_client(service_name, region)
CallGetClient(t) ==
    /\ callers[t].pc = "idle"
    /\ callers[t].n < MaxCalls
    /\ \E service_name \in CacheServices : \E region \in CacheRegions :
         callers' = [callers EXCEPT ![t] =
                        [@ EXCEPT !.pc = "check", !.service_name = service_name,
                                  !.region = region, !.returned = NotCalled]]
    /\ UNCHANGED <<awsTags, CLIENTS, clock, event, result, response, calls, tagsBefore,
                   identity, ctx, written, constructed, eventAfter, iam, history,
                   defaultTags, cleaned>>

\* if client_key not in CLIENTS
CheckCache(t) ==
    /\ callers[t].pc = "check"
    /\ callers' = [callers EXCEPT ![t].pc =
                      IF client_key(callers[t].service_name, callers[t].region)
                            \in DOMAIN CLIENTS
                        THEN "return" ELSE "create"]
    /\ UNCHANGED <<awsTags, CLIENTS, clock, event, result, response, calls, tagsBefore,
                   identity, ctx, written, constructed, eventAfter, iam, history,
                   defaultTags, cleaned>>

\* CLIENTS[client_key] = boto3.client(...): a new client object is constructed
\* and stored under the key
CreateClient(t) ==
    /\ callers[t].pc = "create"
    /\ \E client \in {[client |-> boto3_client(callers[t].service_name, callers[t].region),
                        id     |-> Cardinality(constructed) + 1]} :
         /\ constructed' = constructed \cup {client}
         /\ CLIENTS' = cache_store(CLIENTS,
                                   client_key(callers[t].service_name, callers[t].region),
                                   client)
    /\ callers' = [callers EXCEPT ![t].pc = "return"]
    /\ UNCHANGED <<awsTags, clock, event, result, response, calls, tagsBefore,
                   identity, ctx, written, eventAfter, iam, history, defaultTags,
                   cleaned>>

\* return CLIENTS[client_key]
ReturnClient(t) ==
    /\ callers[t].pc = "return"
    /\ \E key \in {client_key(callers[t].service_name, callers[t].region)} :
         callers' = [callers EXCEPT ![t] =
                        [@ EXCEPT !.pc = "idle", !.n = @ + 1,
                                  !.returned = IF key \in DOMAIN CLIENTS
                                                 THEN Return(CLIENTS[key])
                                                 ELSE Raise("KeyError")]]
    /\ UNCHANGED <<awsTags, CLIENTS, clock, event, result, response, calls, tagsBefore,
                   identity, ctx, written, constructed, eventAfter, iam, history,
                   defaultTags, cleaned>>

InitCache ==
    /\ awsTags = [r \in Resources |-> NoTags]
    /\ CLIENTS = Absent
    /\ clock = 0
    /\ event = None
    /\ result = NotCalled
    /\ response = NoResponse
    /\ calls = <<>>
    /\ tagsBefore = awsTags
    /\ identity = NotCalled
    /\ ctx = [c \in Contexts |-> IdleContext]
    /\ written = {}
    /\ callers = [t \in Threads |-> IdleCaller]
    /\ constructed = {}
    /\ eventAfter = None
    /\ iam = EmptyAccount
    /\ history = <<>>
    /\ defaultTags = default_tags
    /\ cleaned = NotCleaned

NextCache ==
    \/ \E t \in Threads : CallGetClient(t)
    \/ \E t \in Threads : CheckCache(t)
    \/ \E t \in Threads : CreateClient(t)
    \/ \E t \in Threads : ReturnClient(t)

SpecCache == InitCache /\ [][NextCache]_vars

-----------------------------------------------------------------------------
(* User provisioning (user_provisioning.py): AWSUserProvisioner's methods as  *)
(* functions of the IAM account s.  A method is a run of IAM calls; fail names *)
(* the IAM operation the service rejects during the run ("" for none), on top *)
(* of the refusals IAM's own rules give (NoSuchEntity, EntityAlreadyExists,   *)
(* LimitExceeded, DeleteConflict).  A method returns                          *)
(* [raised, exc, value, iam, trace, path, audit].                             *)

Usernames == {"test-user"}

\* the groups and managed policies that exist in the account
ExistingGroups == {"ReadOnly"}

ManagedPolicies == {"ReadOnlyAccess"}

\* IAM's quota of access keys per user
AccessKeysPerUser == 2

\* key ages are counted in half days; timedelta.days is the number of whole days
HalfDaysPerDay == 2

Days(age) == age \div HalfDaysPerDay

KeysOf(s, username) == {k \in s.keys : k.user = username}

\* elements of a sequence
Elems(seq) == {seq[i] : i \in 1..Len(seq)}

\* a run: the account, the exception that ended it ("" while it goes on), the IAM
\* operations called, the account after each call and the audit events written
Run(s) == [iam |-> s, exc |-> "", trace |-> <<>>, path |-> <<>>, audit |-> <<>>]

\* one IAM call of a run: rejected when fail names it, refused with the exception
\* IAM's rules give, otherwise leaving the account as after; an exception in
\* swallowed is caught around the call and the run goes on
Step(r, op, fail, refused, after, swallowed) ==
    IF r.exc # "" THEN r
    ELSE LET exc == IF fail = op THEN "ServiceFailure" ELSE refused
             s == IF exc = "" THEN after ELSE r.iam
         IN [r EXCEPT !.iam = s,
                      !.exc = IF exc \in swallowed THEN "" ELSE exc,
                      !.trace = Append(@, op),
                      !.path = Append(@, s)]

IamCall(r, op, fail, refused, after) == Step(r, op, fail, refused, after, {})

\* a read: the account stays as it is
IamRead(r, op, fail, refused) == Step(r, op, fail, refused, r.iam, {})

\* log_audit_event, reached only when nothing was raised before it
LogAudit(r, event_type) ==
    IF r.exc # "" THEN r ELSE [r EXCEPT !.audit = Append(@, event_type)]

Missing(s, username) == IF username \in s.users THEN "" ELSE "NoSuchEntity"

\* what a method hands back: the value when the run ended normally, else the raise
Outcome(r, value) ==
    [raised |-> r.exc # "", exc |-> r.exc, value |-> IF r.exc = "" THEN value ELSE None,
     iam |-> r.iam, trace |-> r.trace, path |-> r.path, audit |-> r.audit]

\* the account after iam.create_access_key: a key with a new id, created now, Active
iam_create_access_key(s, username) ==
    [s EXCEPT !.keys = @ \cup {[id |-> s.issued + 1, user |-> username,
                                age |-> 0, active |-> TRUE]},
              !.issued = @ + 1]

KeyRefusal(s, username) ==
    IF username \notin s.users THEN "NoSuchEntity"
    ELSE IF Cardinality(KeysOf(s, username)) >= AccessKeysPerUser THEN "LimitExceeded"
    ELSE ""

RECURSIVE add_to_groups(_, _, _, _)
\* for group in groups: add_user_to_group, NoSuchEntityException caught and skipped
add_to_groups(r, username, groups, fail) ==
    IF groups = <<>> THEN r
    ELSE add_to_groups(
             Step(r, "add_user_to_group", fail,
                  IF Head(groups) \in ExistingGroups THEN "" ELSE "NoSuchEntity",
                  [r.iam EXCEPT !.memberships = @ \cup {<<username, Head(groups)>>}],
                  {"NoSuchEntity"}),
             username, Tail(groups), fail)

RECURSIVE attach_policies(_, _, _, _)
\* for policy in policies: attach_user_policy, every Exception caught and skipped
attach_policies(r, username, policies, fail) ==
    IF policies = <<>> THEN r
    ELSE attach_policies(
             Step(r, "attach_user_policy", fail,
                  IF Head(policies) \in ManagedPolicies THEN "" ELSE "NoSuchEntity",
                  [r.iam EXCEPT !.attached = @ \cup {<<username, Head(policies)>>}],
                  {"NoSuchEntity", "ServiceFailure"}),
             username, Tail(policies), fail)

\* the IAM calls of create_user
create_user_run(s, username, groups, policies, console_access, programmatic_access, fail) ==
    LET r1 == IamCall(Run(s), "create_user", fail,
                      IF username \in s.users THEN "EntityAlreadyExists" ELSE "",
                      [s EXCEPT !.users = @ \cup {username}])
        r2 == add_to_groups(r1, username, groups, fail)
        r3 == attach_policies(r2, username, policies, fail)
        r4 == IF console_access
                THEN IamCall(r3, "create_login_profile", fail, "",
                             [r3.iam EXCEPT !.login = @ \cup {username}])
                ELSE r3
    IN IF programmatic_access
         THEN IamCall(r4, "create_access_key", fail, KeyRefusal(r4.iam, username),
                      iam_create_access_key(r4.iam, username))
         ELSE r4

\* the result dict of create_user
create_user_result(s, username, programmatic_access) ==
    LET base == [username |-> username, user_arn |-> <<"user", username>>]
    IN IF programmatic_access THEN base @@ [access_key_id |-> s.issued] ELSE base

\* a variant that undoes what was created when a later step fails
create_user_rolled_back(s, username, groups, policies, console_access, programmatic_access, fail) ==
    LET r == create_user_run(s, username, groups, policies, console_access,
                             programmatic_access, fail)
    IN Outcome(IF r.exc # "" THEN [r EXCEPT !.iam = s] ELSE LogAudit(r, "USER_CREATED"),
               create_user_result(r.iam, username, programmatic_access))

\* a variant that starts with the groups and creates the IAM user after them
create_user_groups_first(s, username, groups, policies, console_access, programmatic_access, fail) ==
    LET r0 == add_to_groups(Run(s), username, groups, fail)
        r == create_user_run(r0.iam, username, <<>>, policies, console_access,
                             programmatic_access, fail)
    IN Outcome(LogAudit([r EXCEPT !.trace = r0.trace \o @, !.path = r0.path \o @],
                        "USER_CREATED"),
               create_user_result(r.iam, username, programmatic_access))

create_user(s, username, groups, policies, console_access, programmatic_access, fail) ==
    LET r == create_user_run(s, username, groups, policies, console_access,
                             programmatic_access, fail)
    IN Outcome(LogAudit(r, "USER_CREATED"),
               create_user_result(r.iam, username, programmatic_access))

\* the oldest-issued key of a non-empty set: the order the keys are listed in
FirstKey(ks) == CHOOSE k \in ks : \A o \in ks : k.id <= o.id

RECURSIVE delete_old_keys(_, _, _, _)
\* for key in existing_keys: delete_access_key when key_age.days > 1
delete_old_keys(r, username, existing_keys, fail) ==
    IF existing_keys = {} THEN r
    ELSE LET key == FirstKey(existing_keys)
         IN delete_old_keys(
                IF Days(key.age) > 1
                  THEN IamCall(r, "delete_access_key", fail, "",
                               [r.iam EXCEPT !.keys = {k \in @ : k.id # key.id}])
                  ELSE r,
                username, existing_keys \ {key}, fail)

\* a variant that deletes the old keys first and creates the new key after
rotate_access_keys_delete_first(s, username, fail) ==
    LET r1 == IamRead(Run(s), "list_access_keys", fail, Missing(s, username))
        existing_keys == KeysOf(s, username)
        r2 == delete_old_keys(r1, username, existing_keys, fail)
        r3 == IamCall(r2, "create_access_key", fail, KeyRefusal(r2.iam, username),
                      iam_create_access_key(r2.iam, username))
    IN Outcome(LogAudit(r3, "ACCESS_KEY_ROTATED"), [access_key_id |-> r3.iam.issued])

rotate_access_keys(s, username, fail) ==
    LET r1 == IamRead(Run(s), "list_access_keys", fail, Missing(s, username))
        existing_keys == KeysOf(s, username)
        r2 == IamCall(r1, "create_access_key", fail, KeyRefusal(r1.iam, username),
                      iam_create_access_key(r1.iam, username))
        r3 == delete_old_keys(r2, username, existing_keys, fail)
    IN Outcome(LogAudit(r3, "ACCESS_KEY_ROTATED"), [access_key_id |-> r2.iam.issued])

\* the virtual MFA device is created under the name f"{username}-mfa" and is not
\* assigned to the user: assignment needs the user's TOTP codes
enable_mfa(s, username, fail) ==
    LET r1 == IamCall(Run(s), "create_virtual_mfa_device", fail,
                      IF \E d \in s.devices : d.name = username
                        THEN "EntityAlreadyExists" ELSE "",
                      [s EXCEPT !.devices = @ \cup {[name |-> username, user |-> ""]}])
    IN Outcome(LogAudit(r1, "MFA_ENABLED"), [serial_number |-> <<"mfa", username>>])

RECURSIVE remove_from_groups(_, _, _, _)
\* for group in Groups: remove_user_from_group
remove_from_groups(r, username, groups, fail) ==
    IF groups = {} THEN r
    ELSE LET group == CHOOSE g \in groups : TRUE
         IN remove_from_groups(
                IamCall(r, "remove_user_from_group", fail, "",
                        [r.iam EXCEPT !.memberships = @ \ {<<username, group>>}]),
                username, groups \ {group}, fail)

RECURSIVE detach_policies(_, _, _, _)
\* for policy in AttachedPolicies: detach_user_policy
detach_policies(r, username, policies, fail) ==
    IF policies = {} THEN r
    ELSE LET policy == CHOOSE q \in policies : TRUE
         IN detach_policies(
                IamCall(r, "detach_user_policy", fail, "",
                        [r.iam EXCEPT !.attached = @ \ {<<username, policy>>}]),
                username, policies \ {policy}, fail)

RECURSIVE delete_inline_policies(_, _, _, _)
\* for policy_name in PolicyNames: delete_user_policy
delete_inline_policies(r, username, names, fail) ==
    IF names = {} THEN r
    ELSE LET policy_name == CHOOSE q \in names : TRUE
         IN delete_inline_policies(
                IamCall(r, "delete_user_policy", fail, "",
                        [r.iam EXCEPT !.inline = @ \ {<<username, policy_name>>}]),
                username, names \ {policy_name}, fail)

RECURSIVE delete_access_keys(_, _, _, _)
\* for key in AccessKeyMetadata: delete_access_key
delete_access_keys(r, username, ks, fail) ==
    IF ks = {} THEN r
    ELSE LET key == FirstKey(ks)
         IN delete_access_keys(
                IamCall(r, "delete_access_key", fail, "",
                        [r.iam EXCEPT !.keys = {k \in @ : k.id # key.id}]),
                username, ks \ {key}, fail)

RECURSIVE delete_mfa_devices(_, _, _, _)
\* for device in MFADevices: deactivate_mfa_device, delete_virtual_mfa_device
delete_mfa_devices(r, username, ds, fail) ==
    IF ds = {} THEN r
    ELSE LET device == CHOOSE d \in ds : TRUE
             r1 == IamCall(r, "deactivate_mfa_device", fail, "",
                           [r.iam EXCEPT !.devices =
                               (@ \ {device}) \cup {[device EXCEPT !.user = ""]}])
             r2 == IamCall(r1, "delete_virtual_mfa_device", fail, "",
                           [r1.iam EXCEPT !.devices =
                               @ \ {[device EXCEPT !.user = ""]}])
         IN delete_mfa_devices(r2, username, ds \ {device}, fail)

\* the values the list calls of delete_user answer with
GroupsOf(s, username) == {m[2] : m \in {x \in s.memberships : x[1] = username}}

AttachedTo(s, username) == {m[2] : m \in {x \in s.attached : x[1] = username}}

InlineOf(s, username) == {m[2] : m \in {x \in s.inline : x[1] = username}}

\* list_mfa_devices(UserName=...): the devices assigned to the user
DevicesOf(s, username) == {d \in s.devices : d.user = username}

\* iam.delete_user is refused while anything is still attached to the user
DeleteRefusal(s, username) ==
    IF username \notin s.users THEN "NoSuchEntity"
    ELSE IF \/ GroupsOf(s, username) # {}
            \/ AttachedTo(s, username) # {}
            \/ InlineOf(s, username) # {}
            \/ KeysOf(s, username) # {}
            \/ username \in s.login
            \/ DevicesOf(s, username) # {}
      THEN "DeleteConflict"
    ELSE ""

\* delete_user from the login profile on
delete_user_tail(r, username, fail) ==
    LET r1 == Step(r, "delete_login_profile", fail,
                   IF username \in r.iam.login THEN "" ELSE "NoSuchEntity",
                   [r.iam EXCEPT !.login = @ \ {username}],
                   {"NoSuchEntity"})
        r2 == IamCall(r1, "delete_user", fail, DeleteRefusal(r1.iam, username),
                      [r1.iam EXCEPT !.users = @ \ {username}])
    IN Outcome(LogAudit(r2, "USER_DELETED"), TRUE)

\* delete_user up to the access keys
delete_user_head(s, username, fail) ==
    LET r1 == IamRead(Run(s), "list_groups_for_user", fail, Missing(s, username))
        r2 == remove_from_groups(r1, username, GroupsOf(r1.iam, username), fail)
        r3 == IamRead(r2, "list_attached_user_policies", fail, "")
        r4 == detach_policies(r3, username, AttachedTo(r3.iam, username), fail)
        r5 == IamRead(r4, "list_user_policies", fail, "")
    IN delete_inline_policies(r5, username, InlineOf(r5.iam, username), fail)

\* a variant that leaves the user's access keys in place
delete_user_keys_kept(s, username, fail) ==
    LET r1 == delete_user_head(s, username, fail)
        r2 == IamRead(r1, "list_mfa_devices", fail, "")
        r3 == delete_mfa_devices(r2, username, DevicesOf(r2.iam, username), fail)
    IN delete_user_tail(r3, username, fail)

\* a variant that deletes the IAM user whatever became of the steps before
delete_user_despite_failure(s, username, fail) ==
    LET r1 == delete_user_head(s, username, fail)
        r2 == IamRead(r1, "list_access_keys", fail, "")
        r3 == delete_access_keys(r2, username, KeysOf(r2.iam, username), fail)
        r4 == IamRead(r3, "list_mfa_devices", fail, "")
        r5 == delete_mfa_devices(r4, username, DevicesOf(r4.iam, username), fail)
        out == delete_user_tail(r5, username, fail)
    IN IF out.raised /\ username \in s.users
         THEN [out EXCEPT !.iam.users = @ \ {username}]
         ELSE out

delete_user(s, username, fail) ==
    LET r1 == delete_user_head(s, username, fail)
        r2 == IamRead(r1, "list_access_keys", fail, "")
        r3 == delete_access_keys(r2, username, KeysOf(r2.iam, username), fail)
        r4 == IamRead(r3, "list_mfa_devices", fail, "")
        r5 == delete_mfa_devices(r4, username, DevicesOf(r4.iam, username), fail)
    IN delete_user_tail(r5, username, fail)

RECURSIVE deactivate_keys(_, _, _, _)
\* for key in AccessKeyMetadata: update_access_key(Status='Inactive')
deactivate_keys(r, username, ks, fail) ==
    IF ks = {} THEN r
    ELSE LET key == FirstKey(ks)
         IN deactivate_keys(
                IamCall(r, "update_access_key", fail, "",
                        [r.iam EXCEPT !.keys =
                            {IF k.id = key.id THEN [k EXCEPT !.active = FALSE] ELSE k :
                                k \in @}]),
                username, ks \ {key}, fail)

\* the backup block of offboard_user: three reads
offboard_backup(r, username, fail) ==
    LET r1 == IamRead(r, "list_groups_for_user", fail, Missing(r.iam, username))
        r2 == IamRead(r1, "list_attached_user_policies", fail, "")
    IN IamRead(r2, "get_user", fail, "")

\* a variant of the disable block that leaves the access keys as they are
offboard_disable_keys_untouched(r, username, fail) ==
    LET r1 == IamRead(r, "list_groups_for_user", fail, Missing(r.iam, username))
    IN remove_from_groups(r1, username, GroupsOf(r1.iam, username), fail)

\* the try block of offboard_user that disables access
offboard_disable(r, username, fail) ==
    LET r1 == IamRead(r, "list_access_keys", fail, Missing(r.iam, username))
        r2 == deactivate_keys(r1, username, KeysOf(r1.iam, username), fail)
        r3 == IamRead(r2, "list_groups_for_user", fail, "")
    IN remove_from_groups(r3, username, GroupsOf(r3.iam, username), fail)

offboard_user(s, username, backup, remove_after_days, fail) ==
    LET r1 == IF backup THEN offboard_backup(Run(s), username, fail) ELSE Run(s)
        tried == offboard_disable(r1, username, fail)
        \* except Exception: result['error'] = str(e), and the method goes on
        r2 == IF r1.exc # "" THEN r1 ELSE [tried EXCEPT !.exc = ""]
        disabled == r1.exc = "" /\ tried.exc = ""
        d == delete_user(r2.iam, username, fail)
        r3 == IF r2.exc # "" \/ remove_after_days > 0 THEN r2
              ELSE [r2 EXCEPT !.iam = d.iam, !.exc = d.exc,
                              !.trace = @ \o d.trace, !.path = @ \o d.path,
                              !.audit = @ \o d.audit]
    IN Outcome(LogAudit(r3, "USER_OFFBOARDED"),
               [username |-> username,
                access_disabled |-> disabled,
                error |-> IF disabled THEN "" ELSE tried.exc,
                scheduled_deletion |-> remove_after_days > 0,
                deleted |-> ~(remove_after_days > 0)])

\* the arguments the provisioner's callers pass
GroupLists == {<<>>, <<"ReadOnly", "Missing">>}

PolicyLists == {<<"ReadOnlyAccess", "NoSuchPolicy">>}

RemoveAfterDays == {0, 30}

\* the IAM operations each method calls
CreateOperations ==
    {"create_user", "add_user_to_group", "attach_user_policy", "create_login_profile",
     "create_access_key"}

RotateOperations == {"list_access_keys", "create_access_key", "delete_access_key"}

MfaOperations == {"create_virtual_mfa_device"}

DeleteOperations ==
    {"list_groups_for_user", "remove_user_from_group", "list_attached_user_policies",
     "detach_user_policy", "list_user_policies", "delete_user_policy", "list_access_keys",
     "delete_access_key", "list_mfa_devices", "deactivate_mfa_device",
     "delete_virtual_mfa_device", "delete_login_profile", "delete_user"}

OffboardOperations == DeleteOperations \cup {"get_user", "update_access_key"}

\* the operation the service rejects during a call: none when the service is
\* healthy, otherwise none or one of the operations the method calls
Fails(faulty, operations) == IF faulty THEN operations \cup {""} ELSE {""}

Recorded(op, username, args, fail, r) ==
    [op |-> op, username |-> username, args |-> args, fail |-> fail,
     before |-> iam, after |-> r.iam,
     raised |-> r.raised, exc |-> r.exc, value |-> r.value,
     trace |-> r.trace, path |-> r.path, audit |-> r.audit]

NoArgs == [groups |-> <<>>, policies |-> <<>>,
           console_access |-> FALSE, programmatic_access |-> FALSE,
           backup |-> FALSE, remove_after_days |-> 0]

\* a call of a method: with a healthy service the calls of a behaviour are kept in
\* history, up to MaxOps of them; with a faulty one history holds the call that
\* has not returned to its caller yet, and the keys issued are capped
MayCall(faulty) == IF faulty THEN history = <<>> ELSE Len(history) < MaxOps

Within(faulty, r) == faulty => r.iam.issued <= MaxIssued

Logged(faulty, rec) == IF faulty THEN <<rec>> ELSE Append(history, rec)

CreateUser(faulty) ==
    /\ MayCall(faulty)
    /\ \E username \in Usernames : \E groups \in GroupLists : \E policies \in PolicyLists :
       \E console_access \in BOOLEAN : \E programmatic_access \in BOOLEAN :
       \E fail \in Fails(faulty, CreateOperations) :
         \E r \in {create_user(iam, username, groups, policies,
                               console_access, programmatic_access, fail)} :
           /\ Within(faulty, r)
           /\ iam' = r.iam
           /\ history' = Logged(faulty,
                  Recorded("create_user", username,
                           [NoArgs EXCEPT !.groups = groups, !.policies = policies,
                                          !.console_access = console_access,
                                          !.programmatic_access = programmatic_access],
                           fail, r))
    /\ UNCHANGED <<awsTags, CLIENTS, clock, event, result, response, calls, tagsBefore,
                   identity, ctx, written, callers, constructed, eventAfter, defaultTags,
                   cleaned>>

RotateAccessKeys(faulty) ==
    /\ MayCall(faulty)
    /\ \E username \in Usernames : \E fail \in Fails(faulty, RotateOperations) :
         \E r \in {rotate_access_keys(iam, username, fail)} :
           /\ Within(faulty, r)
           /\ iam' = r.iam
           /\ history' = Logged(faulty,
                  Recorded("rotate_access_keys", username, NoArgs, fail, r))
    /\ UNCHANGED <<awsTags, CLIENTS, clock, event, result, response, calls, tagsBefore,
                   identity, ctx, written, callers, constructed, eventAfter, defaultTags,
                   cleaned>>

EnableMfa(faulty) ==
    /\ MayCall(faulty)
    /\ \E username \in Usernames : \E fail \in Fails(faulty, MfaOperations) :
         \E r \in {enable_mfa(iam, username, fail)} :
           /\ Within(faulty, r)
           /\ iam' = r.iam
           /\ history' = Logged(faulty, Recorded("enable_mfa", username, NoArgs, fail, r))
    /\ UNCHANGED <<awsTags, CLIENTS, clock, event, result, response, calls, tagsBefore,
                   identity, ctx, written, callers, constructed, eventAfter, defaultTags,
                   cleaned>>

DeleteUser(faulty) ==
    /\ MayCall(faulty)
    /\ \E username \in Usernames : \E fail \in Fails(faulty, DeleteOperations) :
         \E r \in {delete_user(iam, username, fail)} :
           /\ Within(faulty, r)
           /\ iam' = r.iam
           /\ history' = Logged(faulty, Recorded("delete_user", username, NoArgs, fail, r))
    /\ UNCHANGED <<awsTags, CLIENTS, clock, event, result, response, calls, tagsBefore,
                   identity, ctx, written, callers, constructed, eventAfter, defaultTags,
                   cleaned>>

OffboardUser(faulty) ==
    /\ MayCall(faulty)
    /\ \E username \in Usernames : \E backup \in BOOLEAN :
       \E remove_after_days \in RemoveAfterDays : \E fail \in Fails(faulty, OffboardOperations) :
         \E r \in {offboard_user(iam, username, backup, remove_after_days, fail)} :
           /\ Within(faulty, r)
           /\ iam' = r.iam
           /\ history' = Logged(faulty,
                  Recorded("offboard_user", username,
                           [NoArgs EXCEPT !.backup = backup,
                                          !.remove_after_days = remove_after_days],
                           fail, r))
    /\ UNCHANGED <<awsTags, CLIENTS, clock, event, result, response, calls, tagsBefore,
                   identity, ctx, written, callers, constructed, eventAfter, defaultTags,
                   cleaned>>

\* the caller has taken what the method returned or raised
ReturnToCaller ==
    /\ history # <<>>
    /\ history' = <<>>
    /\ UNCHANGED <<awsTags, CLIENTS, clock, event, result, response, calls, tagsBefore,
                   identity, ctx, written, callers, constructed, eventAfter, iam,
                   defaultTags, cleaned>>

\* time passes between calls: every key becomes half a day older
AgeKeys ==
    /\ history = <<>>
    /\ iam.keys # {}
    /\ \A k \in iam.keys : k.age < MaxAge
    /\ iam' = [iam EXCEPT !.keys = {[k EXCEPT !.age = @ + 1] : k \in @}]
    /\ UNCHANGED <<awsTags, CLIENTS, clock, event, result, response, calls, tagsBefore,
                   identity, ctx, written, callers, constructed, eventAfter, history,
                   defaultTags, cleaned>>

\* the user scans the QR code and activates the device with two TOTP codes
ActivateMfa ==
    /\ \E d \in iam.devices :
         /\ d.user = ""
         /\ d.name \in iam.users
         /\ iam' = [iam EXCEPT !.devices = (@ \ {d}) \cup {[d EXCEPT !.user = d.name]}]
    /\ UNCHANGED <<awsTags, CLIENTS, clock, event, result, response, calls, tagsBefore,
                   identity, ctx, written, callers, constructed, eventAfter, history,
                   defaultTags, cleaned>>

InitIam ==
    /\ awsTags = [r \in Resources |-> NoTags]
    /\ CLIENTS = Absent
    /\ clock = 0
    /\ event = None
    /\ result = NotCalled
    /\ response = NoResponse
    /\ calls = <<>>
    /\ tagsBefore = awsTags
    /\ identity = NotCalled
    /\ ctx = [c \in Contexts |-> IdleContext]
    /\ written = {}
    /\ callers = [t \in Threads |-> IdleCaller]
    /\ constructed = {}
    /\ eventAfter = None
    /\ iam = EmptyAccount
    /\ history = <<>>
    /\ defaultTags = default_tags
    /\ cleaned = NotCleaned

NextIam ==
    \/ CreateUser(FALSE)
    \/ RotateAccessKeys(FALSE)
    \/ EnableMfa(FALSE)
    \/ DeleteUser(FALSE)
    \/ ActivateMfa

SpecIam == InitIam /\ [][NextIam]_vars

\* the provisioner against a service that may reject an operation
NextProvision ==
    \/ CreateUser(TRUE)
    \/ RotateAccessKeys(TRUE)
    \/ EnableMfa(TRUE)
    \/ DeleteUser(TRUE)
    \/ OffboardUser(TRUE)
    \/ ReturnToCaller
    \/ AgeKeys
    \/ ActivateMfa

SpecProvision == InitIam /\ [][NextProvision]_vars

-----------------------------------------------------------------------------
(* cleanup.py: cleanup(region) as a function of what is deployed, the operator's *)
(* answers and the operations the services reject with a ClientError            *)

\* the resources of the deployment: the rule with its target, the function, the
\* role with its inline policy, the trail
Deployed == {"rule", "function", "policy", "role", "trail"}

Deployments == {d \in SUBSET Deployed : "policy" \in d => "role" \in d}

\* what the operator may type at a prompt
Answers == {"yes", "YES", "y", "no"}

\* str.lower() on the answers
Lower(answer) == IF answer = "YES" THEN "yes" ELSE answer

CleanupOperations ==
    {"events.remove_targets", "events.delete_rule", "lambda.delete_function",
     "iam.delete_role_policy", "iam.delete_role", "cloudtrail.describe_trails",
     "cloudtrail.stop_logging", "cloudtrail.delete_trail"}

\* one API call of the run: rejected when faults names it, refused with the error
\* the service gives for the state it is in, otherwise removing the resources
CleanupCall(c, op, faults, refused, removed) ==
    LET exc == IF op \in faults THEN "ClientError" ELSE refused
    IN [c EXCEPT !.calls = Append(@, [op |-> op, exc |-> exc]),
                 !.present = IF exc = "" THEN @ \ removed ELSE @]

LastExc(c) == c.calls[Len(c.calls)].exc

\* except ClientError: the not-found code is reported as information, every other
\* error is printed and appended to errors
Caught(c, label, not_found) ==
    IF LastExc(c) \in {"", not_found} THEN c
    ELSE [c EXCEPT !.errors = Append(@, label)]

rule_block(c, faults) ==
    LET c1 == CleanupCall(c, "events.remove_targets", faults,
                          IF "rule" \in c.present THEN "" ELSE "ResourceNotFoundException",
                          {})
        c2 == IF LastExc(c1) = ""
                THEN CleanupCall(c1, "events.delete_rule", faults, "", {"rule"})
                ELSE c1
    IN Caught(c2, "CloudWatch rule", "ResourceNotFoundException")

function_block(c, faults) ==
    Caught(CleanupCall(c, "lambda.delete_function", faults,
                       IF "function" \in c.present THEN "" ELSE "ResourceNotFoundException",
                       {"function"}),
           "Lambda function", "ResourceNotFoundException")

policy_block(c, faults) ==
    Caught(CleanupCall(c, "iam.delete_role_policy", faults,
                       IF "policy" \in c.present THEN "" ELSE "NoSuchEntity",
                       {"policy"}),
           "IAM policy", "NoSuchEntity")

\* IAM refuses to delete a role that still has an inline policy
role_block(c, faults) ==
    Caught(CleanupCall(c, "iam.delete_role", faults,
                       IF "role" \notin c.present THEN "NoSuchEntity"
                       ELSE IF "policy" \in c.present THEN "DeleteConflict"
                       ELSE "",
                       {"role"}),
           "IAM role", "NoSuchEntity")

\* the CloudTrail block: its bare except catches every failure and appends nothing
trail_block(c, second, faults) ==
    LET c1 == CleanupCall(c, "cloudtrail.describe_trails", faults, "", {})
    IN IF LastExc(c1) # "" \/ "trail" \notin c1.present THEN c1
       ELSE LET asked == [c1 EXCEPT !.prompts = @ + 1, !.answers = Append(@, second)]
            IN IF Lower(second) # "yes" THEN asked
               ELSE LET c2 == CleanupCall(asked, "cloudtrail.stop_logging", faults, "", {})
                    IN IF LastExc(c2) # "" THEN c2
                       ELSE CleanupCall(c2, "cloudtrail.delete_trail", faults, "", {"trail"})

\* cleanup(region): what the run called, recorded and left, and the summary it
\* prints
cleanup(deployment, first, second, faults) ==
    LET c0 == [present |-> deployment, calls |-> <<>>, errors |-> <<>>,
               prompts |-> 1, answers |-> <<first>>]
    IN IF Lower(first) # "yes"
         THEN c0 @@ [summary |-> "cancelled"]
         ELSE LET c == trail_block(
                           role_block(
                               policy_block(
                                   function_block(rule_block(c0, faults), faults),
                                   faults),
                               faults),
                           second, faults)
              IN c @@ [summary |-> IF c.errors = <<>> THEN "success" ELSE "errors"]

RunCleanup ==
    /\ ~cleaned.done
    /\ \E deployment \in Deployments : \E first \in Answers : \E second \in Answers :
       \E faults \in {f \in SUBSET CleanupOperations : Cardinality(f) <= MaxRejected} :
         cleaned' = cleanup(deployment, first, second, faults)
                       @@ [done |-> TRUE, deployment |-> deployment, faults |-> faults]
    /\ UNCHANGED <<awsTags, CLIENTS, clock, event, result, response, calls, tagsBefore,
                   identity, ctx, written, callers, constructed, eventAfter, iam, history,
                   defaultTags>>

InitCleanup ==
    /\ awsTags = [r \in Resources |-> NoTags]
    /\ CLIENTS = Absent
    /\ clock = 0
    /\ event = None
    /\ result = NotCalled
    /\ response = NoResponse
    /\ calls = <<>>
    /\ tagsBefore = awsTags
    /\ identity = NotCalled
    /\ ctx = [c \in Contexts |-> IdleContext]
    /\ written = {}
    /\ callers = [t \in Threads |-> IdleCaller]
    /\ constructed = {}
    /\ eventAfter = None
    /\ iam = EmptyAccount
    /\ history = <<>>
    /\ defaultTags = default_tags
    /\ cleaned = NotCleaned

NextCleanup == RunCleanup

SpecCleanup == InitCleanup /\ [][NextCleanup]_vars

-----------------------------------------------------------------------------
(* Properties *)

\* the detail object of the last event, when it has one
HasDetail == event # None /\ IsDict(PyGet(event, "detail", EmptyDict))

Detail == PyGet(event, "detail", EmptyDict)

\* detail[k], None when the key is absent
Field(k) == PyGet(Detail, k, None)

HasField(k) == k \in DOMAIN Detail.dict

\* the part of a string before its first "."
BeforeFirstDot(t) ==
    LET dots == {i \in 1..Len(t) : t[i] = "."}
    IN IF dots = {} THEN t
       ELSE SubSeq(t, 1, (CHOOSE i \in dots : \A j \in dots : i <= j) - 1)

\* the part of a string after its last "/"
AfterLastSlash(t) ==
    LET slashes == {i \in 1..Len(t) : t[i] = "/"}
    IN IF slashes = {} THEN t
       ELSE SubSeq(t, (CHOOSE i \in slashes : \A j \in slashes : j <= i) + 1, Len(t))

DefaultExcluded == {Str(<<"cloudtrail">>), Str(<<"logs">>)}

\* the last event names an excluded service
ExcludedEvent ==
    /\ HasDetail
    /\ IsStr(Field("eventSource"))
    /\ Str(BeforeFirstDot(Field("eventSource").str)) \in DefaultExcluded

Returned(status) == ~result.raised /\ result.value.status = status

CallSet == {calls[i] : i \in 1..Len(calls)}

ApplicatorCalls == {c \in CallSet : c.kind = "applicator"}

ProvenanceKeys ==
    {"CreatedBy", "CreatedByUser", "CreatedByType", "CreatedByAccountId", "CreatedAt"}

\* C1: an event of an excluded service (cloudtrail, logs) is skipped whatever its
\* eventName and userIdentity: no applicator runs, no AWS call is made and no tag
\* changes.
C1_ExcludedSkipped ==
    ExcludedEvent =>
        /\ Returned("skipped")
        /\ calls = <<>>
        /\ awsTags = tagsBefore

\* an excluded event with a null userIdentity has been skipped
C1_Witness ==
    /\ ExcludedEvent
    /\ HasField("userIdentity") /\ Field("userIdentity") = None
    /\ Returned("skipped")

ThreeInstanceIds == {Id("i-1"), Id("i-2"), Id("i-3")}

\* the last event is a RunInstances event yielding three instance ids
ThreeInstancesEvent ==
    /\ HasDetail
    /\ Field("eventSource") = AmazonSource("ec2")
    /\ Field("eventName") = EventName("RunInstances")
    /\ Field("responseElements")
         = Items(<<Instance("i-1"), Instance("i-2"), Instance("i-3")>>)

CreateTagsCalls == {c \in CallSet : c.kind = "api" /\ c.op = "ec2.create_tags"}

\* C2: when the tagging call of one of three instances fails, the other two are
\* still attempted and the result reports two successes beside the failure.
C2_SiblingsStillTagged ==
    (ThreeInstancesEvent /\ \E c \in CreateTagsCalls : ~c.ok) =>
        /\ \A id \in ThreeInstanceIds : \E c \in CreateTagsCalls : c.target = id
        /\ ~result.raised
        /\ "tagged_resources" \in DOMAIN result.value
        /\ Len(result.value.tagged_resources) = 2

RoutingEntries ==
    {<<AmazonSource("ec2"), EventName(n)>> :
        n \in {"RunInstances", "CreateVolume", "CreateSecurityGroup", "CreateVpc",
               "CreateSubnet"}}
    \cup {<<AmazonSource("s3"), EventName("CreateBucket")>>,
          <<AmazonSource("rds"), EventName("CreateDBInstance")>>,
          <<AmazonSource("rds"), EventName("CreateDBCluster")>>,
          <<AmazonSource("lambda"), EventName("CreateFunction20150331")>>,
          <<AmazonSource("dynamodb"), EventName("CreateTable")>>}

\* the last event is of no excluded service and matches no routing entry
UnroutedEvent ==
    /\ HasDetail
    /\ IsStr(Field("eventSource"))
    /\ ~ExcludedEvent
    /\ <<Field("eventSource"), Field("eventName")>> \notin RoutingEntries

\* C3: an event that matches no routing entry is skipped with reason "no-match"
\* and no applicator runs.
C3_NoMatchSkipped ==
    UnroutedEvent =>
        /\ Returned("skipped")
        /\ result.value.reason = "no-match"
        /\ calls = <<>>

\* C4: get_user_identity never raises and returns all five fields populated.
C4_IdentityTotal ==
    identity # NotCalled =>
        /\ ~identity.raised
        /\ \A k \in ProvenanceKeys : IsStr(identity.value[k])

BucketLabel == Str(<<"s3", ":", "bucket", ":", "demo-bucket">>)

\* ev is a CreateBucket event for demo-bucket
BucketEvent(ev) ==
    /\ ev # None
    /\ IsDict(PyGet(ev, "detail", EmptyDict))
    /\ PyGet(PyGet(ev, "detail", EmptyDict), "eventSource", None) = AmazonSource("s3")
    /\ PyGet(PyGet(ev, "detail", EmptyDict), "eventName", None) = EventName("CreateBucket")
    /\ PyGet(PyGet(ev, "detail", EmptyDict), "requestParameters", None)
         = Dict("bucketName" :> DemoBucket)

\* the dispatch with outcome res tagged demo-bucket
BucketTagged(res) ==
    /\ ~res.raised
    /\ res.value.status = "success"
    /\ res.value.tagged_resources = <<BucketLabel>>

\* C5: when the CreateBucket event just dispatched is dispatched again, the second
\* dispatch leaves the bucket's tags as the first left them: the tags from before
\* the first dispatch overlaid with the new tags, no earlier key removed.
C5_RedeliveryChangesNothing ==
    [][(/\ BucketEvent(event)
        /\ event' = event
        /\ BucketTagged(result)
        /\ BucketTagged(result'))
       => /\ awsTags'[DemoBucket] = awsTags[DemoBucket]
          /\ DOMAIN tagsBefore[DemoBucket] \subseteq DOMAIN awsTags'[DemoBucket]
          /\ \A k \in DOMAIN result'.value.tags_applied :
                awsTags'[DemoBucket][k] = result'.value.tags_applied[k]]_vars


\* the applicator entries of successful tag_s3_bucket calls in the last invocation
S3Applied == {c \in ApplicatorCalls : c.op = "tag_s3_bucket" /\ c.ok}

\* positions in calls of the API calls named op
CallsAt(op) == {i \in 1..Len(calls) : calls[i].kind = "api" /\ calls[i].op = op}

\* C6: a tag_s3_bucket call that returns has read the bucket's tags and then
\* written once; the read is answered NoSuchTagSet exactly when the bucket had no
\* tags; afterwards the bucket holds its earlier tags overlaid with the new ones:
\* earlier keys that are not new keep their value, new keys carry the new value,
\* there is no other key, and a bucket without tags ends with exactly the default
\* tags and the five identity tags.
C6_ReadMergeWrite ==
    \A c \in S3Applied :
        LET pre == tagsBefore[c.target]
            post == awsTags[c.target]
            new == c.tags
        IN /\ \E g \in CallsAt("s3.get_bucket_tagging") :
              \E p \in CallsAt("s3.put_bucket_tagging") :
                 /\ g < p
                 /\ CallsAt("s3.get_bucket_tagging") = {g}
                 /\ CallsAt("s3.put_bucket_tagging") = {p}
                 /\ calls[g].ok <=> DOMAIN pre # {}
                 /\ calls[p].ok
           /\ DOMAIN post = DOMAIN pre \cup DOMAIN new
           /\ \A k \in DOMAIN pre \ DOMAIN new : post[k] = pre[k]
           /\ \A k \in DOMAIN new : post[k] = new[k]
           /\ DOMAIN pre = {} =>
                 /\ DOMAIN post = ProvenanceKeys \cup {"AutoTagged", "ManagedBy"}
                 /\ post = result.value.tags_applied
                 /\ post["AutoTagged"] = Str(<<"true">>)
                 /\ post["ManagedBy"] = Str(<<"AutoTagger">>)

\* a bucket that had tags, one of them under a new key, has been tagged
C6_Witness ==
    \E c \in S3Applied :
        /\ "Environment" \in DOMAIN tagsBefore[c.target]
        /\ "AutoTagged" \in DOMAIN tagsBefore[c.target]
        /\ awsTags[c.target]["Environment"] = Str(<<"prod">>)
        /\ awsTags[c.target]["AutoTagged"] = Str(<<"true">>)

\* C7: the write of tag_s3_bucket replaces the bucket's whole collection by the
\* writer's snapshot overlaid with its tags, whatever the bucket holds by then; so
\* a tag put between a dispatch's read and its write is lost (C7_LostUpdate).
C7_WriteReplacesCollection ==
    [][\A c \in Contexts :
          (ctx[c].pc = "write" /\ ctx'[c].pc = "done")
              => awsTags'[DemoBucket] = ctx[c].existing_tags]_vars

\* every dispatch has finished and a tag that some writer put is missing
C7_LostUpdate ==
    /\ \A c \in Contexts : ctx[c].pc = "done"
    /\ \E t \in written : t.Key \notin DOMAIN awsTags[DemoBucket]

\* the userIdentity object of the event, {} when the event has none
UserIdentityObject == PyGet(PyGet(event, "detail", EmptyDict), "userIdentity", EmptyDict)

\* the identity extractor ran on an event whose userIdentity is an object or absent
ExtractedFromObject ==
    /\ identity # NotCalled
    /\ IsDict(PyGet(event, "detail", EmptyDict))
    /\ IsDict(UserIdentityObject)

TypeField == PyGet(UserIdentityObject, "type", None)

\* C8: for a userIdentity whose type is not AssumedRole the extractor returns and
\* CreatedByUser is the userName field for IAMUser ("unknown" when the field is
\* absent), "root" for Root and "unknown" for any other or absent type;
\* CreatedByType is the type as the event gives it ("unknown" when absent).
C8_NameRule ==
    (ExtractedFromObject /\ TypeField # AssumedRole) =>
        /\ ~identity.raised
        /\ identity.value.CreatedByUser =
              (IF TypeField = IAMUser
                 THEN IF "userName" \in DOMAIN UserIdentityObject.dict
                        THEN UserIdentityObject.dict["userName"] ELSE Str(<<"unknown">>)
               ELSE IF TypeField = Root THEN Str(<<"root">>)
               ELSE Str(<<"unknown">>))
        /\ identity.value.CreatedByType =
              (IF "type" \in DOMAIN UserIdentityObject.dict
                 THEN UserIdentityObject.dict["type"] ELSE Str(<<"unknown">>))

\* the extractor named a Root principal
C8_Witness ==
    /\ ExtractedFromObject
    /\ TypeField = Root
    /\ ~identity.raised
    /\ identity.value.CreatedByUser = Str(<<"root">>)
    /\ identity.value.CreatedByType = Root

\* the session issuer's userName of the event, None when there is none
IssuerName ==
    LET sc == PyGet(UserIdentityObject, "sessionContext", None)
        si == IF IsDict(sc) THEN PyGet(sc, "sessionIssuer", None) ELSE None
    IN IF IsDict(si) THEN PyGet(si, "userName", None) ELSE None

ArnField == PyGet(UserIdentityObject, "arn", None)

\* C9: for type AssumedRole, CreatedByUser is the session issuer's userName when
\* there is one, else the last "/" segment of the ARN, "unknown" without an ARN.
C9_AssumedRoleName ==
    (ExtractedFromObject /\ TypeField = AssumedRole) =>
        /\ ~identity.raised
        /\ identity.value.CreatedByUser =
              (IF Truthy(IssuerName) THEN IssuerName
               ELSE IF IsStr(ArnField) THEN Str(AfterLastSlash(ArnField.str))
               ELSE Str(<<"unknown">>))

\* t holds the static defaults and the five provenance keys with string values
CompleteTagSet(t) ==
    /\ ProvenanceKeys \cup {"AutoTagged", "ManagedBy"} \subseteq DOMAIN t
    /\ \A k \in DOMAIN t : IsStr(t[k])

\* C10: every tag set handed to an applicator, and tags_applied of every success
\* result, holds the defaults and the five provenance keys, each a non-null string.
C10_ProvenanceTags ==
    event # None =>
        /\ \A c \in ApplicatorCalls : CompleteTagSet(c.tags)
        /\ Returned("success") => CompleteTagSet(result.value.tags_applied)

-----------------------------------------------------------------------------
(* The dispatcher's results *)

\* the last event has the given source and name and was sent by the IAM user alice
EventOfAlice(source, name) ==
    /\ HasDetail
    /\ Field("eventSource") = source
    /\ Field("eventName") = EventName(name)
    /\ IsDict(Field("userIdentity"))
    /\ PyGet(Field("userIdentity"), "type", None) = IAMUser
    /\ PyGet(Field("userIdentity"), "userName", None) = Alice

\* C11: the event with eventSource "ec2.service", eventName RunInstances, IAM user
\* alice and the one instance i-100 yields tagged_resources =
\* ["compute-instance:i-100"] and tags_applied with CreatedByUser = alice.
C11_ServiceExample ==
    (/\ EventOfAlice(Str(<<"ec2", ".", "service">>), "RunInstances")
     /\ Field("responseElements") = Items(<<Instance("i-100")>>))
    => /\ ~result.raised
       /\ "tagged_resources" \in DOMAIN result.value
       /\ result.value.tagged_resources = <<Str(<<"compute-instance", ":", "i-100">>)>>
       /\ result.value.tags_applied["CreatedByUser"] = Alice

SecurityGroupId == Id("sg-1")

\* the last event is a CreateSecurityGroup event of ec2.amazonaws.com for sg-1
\* and the tagging call for the group succeeded
SecurityGroupTagged ==
    /\ HasDetail
    /\ Field("eventSource") = AmazonSource("ec2")
    /\ Field("eventName") = EventName("CreateSecurityGroup")
    /\ Field("responseElements") = Dict("groupId" :> SecurityGroupId)
    /\ \E c \in CallSet :
          c.kind = "api" /\ c.op = "ec2.create_tags" /\ c.target = SecurityGroupId /\ c.ok

\* C12: after a CreateSecurityGroup event whose tagging call succeeded, the group
\* carries CreatedBy, CreatedByUser, CreatedAt and AutoTagged with the values of
\* the dispatch's tag set, and the result lists the group as tagged.
C12_SecurityGroupTags ==
    SecurityGroupTagged =>
        /\ Returned("success")
        /\ result.value.tagged_resources
              = <<Str(<<"ec2", ":", "security-group", ":", "sg-1">>)>>
        /\ \A k \in {"CreatedBy", "CreatedByUser", "CreatedAt", "AutoTagged"} :
              /\ k \in DOMAIN awsTags[SecurityGroupId]
              /\ awsTags[SecurityGroupId][k] = result.value.tags_applied[k]
        /\ awsTags[SecurityGroupId]["AutoTagged"] = Str(<<"true">>)

\* a group that carried CreatedByUser = bob and AutoTagged = false has been tagged
C12_Witness ==
    /\ SecurityGroupTagged
    /\ "CreatedByUser" \in DOMAIN tagsBefore[SecurityGroupId]
    /\ tagsBefore[SecurityGroupId]["AutoTagged"] = Str(<<"false">>)
    /\ awsTags[SecurityGroupId]["CreatedByUser"] \in {Alice, Str(<<"Admin">>)}
    /\ awsTags[SecurityGroupId]["AutoTagged"] = Str(<<"true">>)

\* the outcome res is a returned result of status 'success'
Succeeded(res) == ~res.raised /\ res.value.status = "success"

\* C13: dispatching the same event twice yields the same resource list and the
\* same tag set, CreatedAt included, also when the event carries no eventTime.
C13_SameEventSameTags ==
    [][(/\ event # None
        /\ event' = event
        /\ Succeeded(result)
        /\ Succeeded(result'))
       => /\ result'.value.tagged_resources = result.value.tagged_resources
          /\ result'.value.tags_applied = result.value.tags_applied]_vars

\* C14: a dispatch that returns status 'error' has issued no applicator call.
C14_ErrorMeansNoAttempt ==
    (event # None /\ Returned("error")) => ApplicatorCalls = {}

\* the last event matches a routing entry and was sent by the IAM user alice
RoutedEventOfAlice ==
    /\ HasDetail
    /\ <<Field("eventSource"), Field("eventName")>> \in RoutingEntries
    /\ HasField("userIdentity")
    /\ Field("userIdentity") = IamAlice

\* the key of the body the branch of the last event reads
BodyKey ==
    IF Field("eventName") = EventName("CreateBucket")
      THEN "requestParameters" ELSE "responseElements"

\* bodies that are objects and name no resource
EmptyBodies == {EmptyDict, Items(<<>>)}

\* bodies that are null or hold a null or empty member where the identifier is
PartialBodies ==
    {None,
     Dict("instancesSet" :> None),
     Dict("instancesSet" :> Dict("items" :> None)),
     Dict("vpc" :> None),
     Dict("tableDescription" :> None),
     Dict("bucketName" :> Str(<<>>))}

\* C15: a routed event whose body is absent or names no resource ends in status
\* 'skipped' with reason "no-resources".
C15_NoResourcesSkipped ==
    (RoutedEventOfAlice /\ (~HasField(BodyKey) \/ Field(BodyKey) \in EmptyBodies))
    => /\ Returned("skipped")
       /\ result.value.reason = "no-resources"

\* C16: a routed event whose body is absent, null or partially populated yields
\* no resource: no applicator runs and the dispatch does not end in an error.
C16_PartialBodyTolerated ==
    (RoutedEventOfAlice
     /\ (~HasField(BodyKey) \/ Field(BodyKey) \in EmptyBodies \cup PartialBodies))
    => /\ ~result.raised
       /\ result.value.status # "error"
       /\ ApplicatorCalls = {}

\* the payload in the body of the handler's response
Payload == response.body.json

\* C17: the body payload carries status, tagged_resources, tags_applied,
\* event_name and event_source for every success and skip, and status "error",
\* error, event_name and event_source for every failure.
C17_PayloadFields ==
    event # None =>
        /\ "status" \in DOMAIN Payload
        /\ Payload.status \in {"success", "skipped"} =>
              {"status", "tagged_resources", "tags_applied", "event_name", "event_source"}
                  \subseteq DOMAIN Payload
        /\ Payload.status = "error" =>
              {"status", "error", "event_name", "event_source"} \subseteq DOMAIN Payload

\* the last event is of no excluded service and its userIdentity is null
NullIdentityEvent ==
    /\ HasDetail
    /\ IsStr(PyGet(Detail, "eventSource", Str(<<>>)))
    /\ ~ExcludedEvent
    /\ HasField("userIdentity")
    /\ Field("userIdentity") = None

\* the last event matches a routing entry other than RunInstances with a null body
NullBodyEvent ==
    /\ RoutedEventOfAlice
    /\ Field("eventName") # EventName("RunInstances")
    /\ HasField(BodyKey)
    /\ Field(BodyKey) = None

\* an exception was raised during the last dispatch: in identity extraction, in
\* resource extraction or in an applicator
DispatchFailed ==
    \/ result.raised
    \/ NullIdentityEvent
    \/ NullBodyEvent
    \/ \E c \in ApplicatorCalls : ~c.ok

\* C18: lambda_handler answers every event with a response of statusCode 200 or
\* 500 whose payload has a status; when an exception was raised during the dispatch
\* the payload has status "error" and an error text, and an exception that left
\* process_event gives statusCode 500.
C18_NoFailureEscapes ==
    event # None =>
        /\ response.statusCode \in {200, 500}
        /\ "status" \in DOMAIN Payload
        /\ DispatchFailed => (Payload.status = "error" /\ "error" \in DOMAIN Payload)
        /\ NullIdentityEvent => (result.raised /\ response.statusCode = 500)

\* identity extraction raised on a null userIdentity and the handler answered 500
C18_Witness ==
    /\ event # None
    /\ NullIdentityEvent
    /\ result.raised
    /\ response.statusCode = 500
    /\ Payload.status = "error"

\* the identifier starts with "arn:"
IsArn(v) == Len(v.str) >= 2 /\ SubSeq(v.str, 1, 2) = <<"arn", ":">>

\* the tag_lambda_function invocations of the last dispatch
LambdaApplied == {c \in ApplicatorCalls : c.op = "tag_lambda_function"}

\* C19: tag_lambda_function given a short name calls get_function once, before any
\* tag_resource call, and tags the function's ARN; when the lookup fails it makes no
\* tag_resource call; given an ARN it makes no lookup and tags that ARN.  A
\* tag_resource call that succeeds leaves the tags on the resource it named.
C19_LookupBeforeTag ==
    \A c \in LambdaApplied :
        LET lookups == CallsAt("lambda.get_function")
            taggings == CallsAt("lambda.tag_resource")
        IN /\ Cardinality(taggings) <= 1
           /\ \A t \in taggings :
                 calls[t].ok => \A k \in DOMAIN c.tags :
                                   awsTags[calls[t].target][k] = c.tags[k]
           /\ IF IsArn(c.target)
                THEN /\ lookups = {}
                     /\ \E t \in taggings : calls[t].target = c.target
                ELSE \E g \in lookups :
                        /\ lookups = {g}
                        /\ calls[g].target = c.target
                        /\ ~calls[g].ok => taggings = {}
                        /\ calls[g].ok =>
                              \E t \in taggings :
                                 /\ g < t
                                 /\ calls[t].target
                                       = Str(<<"arn", ":", "aws", ":", "lambda", ":",
                                               "function", ":">> \o c.target.str)

\* a function given by its short name was resolved and then tagged
C19_Witness ==
    \E c \in LambdaApplied :
        /\ c.ok
        /\ ~IsArn(c.target)
        /\ \E g \in CallsAt("lambda.get_function") : \E t \in CallsAt("lambda.tag_resource") :
              g < t /\ calls[g].ok /\ calls[t].ok

\* the API call op was rejected in the dispatch that logged log
Rejected(log, op) ==
    \E i \in 1..Len(log) : log[i].kind = "api" /\ log[i].op = op /\ ~log[i].ok

\* what an error result tells apart from the wording of its message: the status,
\* the fields of the result and the class of the exception
OutcomeKind(res) ==
    [status |-> res.value.status, fields |-> DOMAIN res.value, exception |-> res.value.error.text]

\* C20: the error outcome of a dispatch whose get_function lookup failed differs
\* in kind from the error outcome of a dispatch whose tag_resource call failed.
C20_ResolutionDistinguished ==
    [][(/\ Rejected(calls, "lambda.get_function")
        /\ Rejected(calls', "lambda.tag_resource"))
       => OutcomeKind(result) # OutcomeKind(result')]_vars

-----------------------------------------------------------------------------
(* Attempts, repetition and the client cache *)

\* positions in calls of the API calls that write tags
TaggingCalls ==
    {i \in 1..Len(calls) :
        /\ calls[i].kind = "api"
        /\ calls[i].op \in {"ec2.create_tags", "s3.put_bucket_tagging",
                             "rds.add_tags_to_resource", "lambda.tag_resource",
                             "dynamodb.tag_resource"}}

\* C21: within one dispatch no call is issued twice for the same resource: every
\* applicator is invoked at most once per resource, every API operation at most once
\* per target, and after a rejected tagging call no further API call is made.
C21_SinglePass ==
    event # None =>
        /\ \A i, j \in 1..Len(calls) :
              (/\ calls[i].kind = calls[j].kind
               /\ calls[i].op = calls[j].op
               /\ calls[i].target = calls[j].target) => i = j
        /\ \A i \in TaggingCalls :
              ~calls[i].ok => \A j \in 1..Len(calls) : calls[j].kind = "api" => j <= i

\* a tagging call was rejected: it is the only call for its resource and the
\* dispatch ended in status 'error'
C21_Witness ==
    /\ event # None
    /\ Returned("error")
    /\ \E i \in TaggingCalls :
          /\ ~calls[i].ok
          /\ calls[i].op = "ec2.create_tags"
          /\ \A j \in TaggingCalls : calls[j].target = calls[i].target => j = i

\* the dispatch with outcome res tagged at least one resource through an upsert API
\* (every family but the S3 bucket)
UpsertTagged(ev, res) ==
    /\ ev # None
    /\ Succeeded(res)
    /\ res.value.tagged_resources # <<>>
    /\ res.value.event_source # AmazonSource("s3")

\* C22: when an event of an overwrite-union family that was just dispatched is
\* dispatched again, the second dispatch leaves every resource's tags as the first
\* left them, and tags under keys outside the applied tag set keep their values.
C22_UpsertIdempotent ==
    [][(/\ UpsertTagged(event, result)
        /\ event' = event
        /\ UpsertTagged(event', result'))
       => /\ awsTags' = awsTags
          /\ \A r \in DOMAIN awsTags :
                \A k \in DOMAIN tagsBefore[r] \ DOMAIN result'.value.tags_applied :
                   /\ k \in DOMAIN awsTags'[r]
                   /\ awsTags'[r][k] = tagsBefore[r][k]]_vars

\* the service whose client the applicator named op asks for
ServiceOf(op) ==
    CASE op = "tag_ec2_resource" -> "ec2"
      [] op = "tag_s3_bucket" -> "s3"
      [] op = "tag_rds_resource" -> "rds"
      [] op = "tag_lambda_function" -> "lambda"
      [] op = "tag_dynamodb_table" -> "dynamodb"

\* the client of the pair (service, region): bound to the region when one is named
ClientOfPair(service, region) ==
    [service |-> service,
     region  |-> IF IsStr(region) /\ region.str # <<>> THEN region ELSE None]

\* C23: the cache never replaces or drops an entry, and after a dispatch it holds,
\* for the (service, region) pair of each applicator that ran, the client of that
\* pair: pairs that differ (a named region against an absent one included) do not
\* share a client.
C23_CacheKeyedByPair ==
    [][/\ \A k \in DOMAIN CLIENTS : k \in DOMAIN CLIENTS' /\ CLIENTS'[k] = CLIENTS[k]
       /\ \A i \in 1..Len(calls') :
             calls'[i].kind = "applicator" =>
                \E k \in DOMAIN CLIENTS' :
                   CLIENTS'[k] = ClientOfPair(ServiceOf(calls'[i].op),
                                              PyGet(PyGet(event', "detail", EmptyDict),
                                                    "awsRegion", Str(<<"us-east-1">>)))]_vars

\* the client objects constructed for the pair (service_name, region)
ConstructedFor(service_name, region) ==
    {o \in constructed : o.client = ClientOfPair(service_name, region)}

\* C24: whatever the interleaving of the threads' membership tests and stores, a
\* get_client call returns a client constructed for the pair it asked for, the
\* cache then holds one constructed client of that pair, and at most one client
\* per thread is ever constructed for a pair.
C24_CreateIfAbsentRaceSafe ==
    /\ \A t \in Threads :
          callers[t].returned # NotCalled =>
             /\ ~callers[t].returned.raised
             /\ callers[t].returned.value
                   \in ConstructedFor(callers[t].service_name, callers[t].region)
             /\ \E k \in DOMAIN CLIENTS :
                   CLIENTS[k] \in ConstructedFor(callers[t].service_name, callers[t].region)
    /\ \A k \in DOMAIN CLIENTS : CLIENTS[k] \in constructed
    /\ \A o \in constructed :
          /\ Cardinality({k \in DOMAIN CLIENTS : CLIENTS[k].client = o.client}) = 1
          /\ Cardinality({q \in constructed : q.client = o.client}) <= Cardinality(Threads)

\* both threads asked for the same pair, each constructed a client, and each holds
\* its own while the cache holds one of the two
C24_Witness ==
    /\ \A t \in Threads : callers[t].returned # NotCalled /\ ~callers[t].returned.raised
    /\ callers[1].service_name = callers[2].service_name
    /\ callers[1].region = callers[2].region
    /\ callers[1].returned.value # callers[2].returned.value
    /\ Cardinality(ConstructedFor(callers[1].service_name, callers[1].region)) = 2

-----------------------------------------------------------------------------
(* The event, the tag set and the routing *)

Overlay(a, b) ==
    [k \in DOMAIN a \cup DOMAIN b |-> IF k \in DOMAIN b THEN b[k] ELSE a[k]]

StaticDefaults == [AutoTagged |-> Str(<<"true">>), ManagedBy |-> Str(<<"AutoTagger">>)]

\* the identity-derived tags of the last event (its dispatch read the clock one
\* tick ago)
IdentityLayer == get_user_identity(event, clock - 1).value

\* override sets a caller may want applied: none, one that collides with an
\* identity-derived key, one that collides with a default
CallerOverrides ==
    {NoTags, [CreatedByUser |-> Str(<<"carol">>)], [AutoTagged |-> Str(<<"false">>)]}

-----------------------------------------------------------------------------
(* The provisioning lifecycle *)

\* the first n calls are those of the lifecycle, in order, for one user, the
\* creation asking for groups, console access and programmatic access
LifecycleOps == <<"create_user", "rotate_access_keys", "enable_mfa", "delete_user">>

LifecyclePrefix(n) ==
    /\ n \in 1..Len(LifecycleOps)
    /\ Len(history) >= n
    /\ \A i \in 1..n : /\ history[i].op = LifecycleOps[i]
                        /\ history[i].username = history[1].username
    /\ history[1].args.groups # <<>>
    /\ history[1].args.console_access
    /\ history[1].args.programmatic_access

\* C27: the lifecycle create_user (groups, console and programmatic access),
\* rotate_access_keys, enable_mfa, delete_user runs without any step raising; the
\* rotation returns an access key id different from the one issued at creation,
\* and once delete_user has returned the user no longer exists.
C27_LifecycleCompletes ==
    \A n \in 1..Len(LifecycleOps) :
        LifecyclePrefix(n) =>
            /\ ~history[n].raised
            /\ (n >= 2 =>
                  history[2].value.access_key_id # history[1].value.access_key_id)
            /\ (n = 4 /\ Len(history) = 4) => history[1].username \notin iam.users

C27_Witness ==
    /\ LifecyclePrefix(4)
    /\ Len(history) = 4
    /\ ~history[4].raised
    /\ iam.users = {}

\* what is left in the account of a user: memberships, attached and inline
\* policies, access keys, the login profile, and MFA devices assigned to the user
\* or created under the user's name
Remains(s, username) ==
    \/ \E m \in s.memberships \cup s.attached \cup s.inline : m[1] = username
    \/ KeysOf(s, username) # {}
    \/ username \in s.login
    \/ \E d \in s.devices : d.user = username \/ d.name = username

DeleteReturnedTrue ==
    /\ history # <<>>
    /\ history[Len(history)].op = "delete_user"
    /\ ~history[Len(history)].raised

\* C28: once delete_user(username) has returned True, the user and everything
\* associated with the user are gone: group memberships, attached and inline
\* policies, access keys, the login profile and the MFA devices, the virtual
\* device created by enable_mfa included.
C28_DeleteRemovesEverything ==
    DeleteReturnedTrue =>
        /\ history[Len(history)].username \notin iam.users
        /\ ~Remains(iam, history[Len(history)].username)

-----------------------------------------------------------------------------
(* Routing and the result's resource list *)

\* the routing table as the specification gives it: the applicator of the family
\* of the (eventSource, eventName) pair, "" for a pair with no entry
RoutedApplicator(event_source, event_name) ==
    IF /\ event_source = AmazonSource("ec2")
       /\ event_name \in {EventName(n) : n \in {"RunInstances", "CreateVolume",
                                                "CreateSecurityGroup", "CreateVpc",
                                                "CreateSubnet"}}
      THEN "tag_ec2_resource"
    ELSE IF event_source = AmazonSource("s3") /\ event_name = EventName("CreateBucket")
      THEN "tag_s3_bucket"
    ELSE IF /\ event_source = AmazonSource("rds")
            /\ event_name \in {EventName("CreateDBInstance"), EventName("CreateDBCluster")}
      THEN "tag_rds_resource"
    ELSE IF /\ event_source = AmazonSource("lambda")
            /\ event_name = EventName("CreateFunction20150331")
      THEN "tag_lambda_function"
    ELSE IF event_source = AmazonSource("dynamodb") /\ event_name = EventName("CreateTable")
      THEN "tag_dynamodb_table"
    ELSE ""

\* the API operations each applicator issues
OperationsOf(applicator) ==
    CASE applicator = "tag_ec2_resource" -> {"ec2.create_tags"}
      [] applicator = "tag_s3_bucket" -> {"s3.get_bucket_tagging", "s3.put_bucket_tagging"}
      [] applicator = "tag_rds_resource" -> {"rds.add_tags_to_resource"}
      [] applicator = "tag_lambda_function" -> {"lambda.get_function", "lambda.tag_resource"}
      [] applicator = "tag_dynamodb_table" -> {"dynamodb.describe_table",
                                               "dynamodb.tag_resource"}
      [] OTHER -> {}

\* the applicators invoked during the dispatch
ApplicatorsInvoked == {calls[i].op : i \in {j \in 1..Len(calls) : calls[j].kind = "applicator"}}

EventDetail == PyGet(event, "detail", EmptyDict)

\* C29: at most one branch of process_event runs for an event, and only the
\* applicator of that branch's family is invoked: every applicator call, and every
\* API call, of the dispatch belongs to the family the routing table gives for the
\* event's (eventSource, eventName); an event with no entry invokes none.
C29_OneBranchOneFamily ==
    event # None =>
        /\ Cardinality(ApplicatorsInvoked) <= 1
        /\ IF IsDict(EventDetail)
             THEN \A i \in 1..Len(calls) :
                     LET routed == RoutedApplicator(PyGet(EventDetail, "eventSource", Str(<<>>)),
                                                    PyGet(EventDetail, "eventName", Str(<<>>)))
                     IN IF calls[i].kind = "applicator"
                          THEN calls[i].op = routed
                          ELSE calls[i].op \in OperationsOf(routed)
             ELSE calls = <<>>

\* a Lambda function was tagged by the Lambda applicator, a table by DynamoDB's
C29_Witness ==
    /\ event # None
    /\ IsDict(EventDetail)
    /\ PyGet(EventDetail, "eventName", Str(<<>>)) = EventName("CreateFunction20150331")
    /\ ApplicatorsInvoked = {"tag_lambda_function"}
    /\ Returned("success")

\* the applicator calls of the dispatch that returned without error, in call order
SucceededCalls == SelectSeq(calls, LAMBDA c : c.kind = "applicator" /\ c.ok)

\* the resource list a result reports; a result without the field reports none
ReportedResources(res) ==
    IF "tagged_resources" \in DOMAIN res THEN res.tagged_resources ELSE <<>>

\* the identifier in a label  family:kind:identifier
LabelIdentifier(label) == Str(SubSeq(label.str, 5, Len(label.str)))

\* the instance ids a RunInstances event lists, by position (None where the item
\* gives none)
ListedInstances ==
    LET re == PyGet(EventDetail, "responseElements", EmptyDict)
        set == IF IsDict(re) THEN PyGet(re, "instancesSet", EmptyDict) ELSE EmptyDict
        items == IF IsDict(set) THEN PyGet(set, "items", List(<<>>)) ELSE List(<<>>)
    IN IF IsList(items)
         THEN [p \in 1..Len(items.list) |->
                  IF IsDict(items.list[p])
                    THEN PyGet(items.list[p], "instanceId", None) ELSE None]
         ELSE <<>>

\* C30: in every result of process_event, tagged_resources holds exactly the
\* resources whose tagging call returned without error during the dispatch, each
\* once, in the order in which the event lists them.
C30_TaggedResourcesExact ==
    (event # None /\ ~result.raised) =>
        LET reported == ReportedResources(result.value)
        IN /\ Len(reported) = Len(SucceededCalls)
           /\ \A i \in 1..Len(reported) :
                 /\ i <= Len(SucceededCalls)
                 /\ LabelIdentifier(reported[i]) = SucceededCalls[i].target
                 /\ Head(reported[i].str) = ServiceOf(SucceededCalls[i].op)
           /\ \A i, j \in 1..Len(reported) : reported[i] = reported[j] => i = j
           /\ Len(reported) >= 2 =>
                 \A i, j \in 1..Len(reported) :
                     i < j => \E p, q \in 1..Len(ListedInstances) :
                                 /\ p < q
                                 /\ ListedInstances[p] = LabelIdentifier(reported[i])
                                 /\ ListedInstances[q] = LabelIdentifier(reported[j])

-----------------------------------------------------------------------------
(* Status codes, the S3 read step and the tag set's frame *)

\* C31: lambda_handler answers 200 whenever process_event returns a result, a
\* 'skipped' or 'error' result included, with that result as the body, and 500
\* only when process_event itself raises.
C31_StatusCodeByReturn ==
    event # None =>
        /\ ~result.raised => /\ response.statusCode = 200
                             /\ response.body = JsonDumps(result.value)
        /\ result.raised => response.statusCode = 500
        /\ response.statusCode \in {200, 500}

\* a dispatch-level error caught inside process_event is answered with 200
C31_Witness ==
    /\ event # None
    /\ Returned("error")
    /\ response.statusCode = 200
    /\ response.body.json.status = "error"

\* positions in calls of the reads of a bucket's tags that failed although the
\* bucket had tags before the dispatch: the failure is not NoSuchTagSet
FailedReads ==
    {i \in 1..Len(calls) :
        /\ calls[i].kind = "api"
        /\ calls[i].op = "s3.get_bucket_tagging"
        /\ ~calls[i].ok
        /\ calls[i].target \in DOMAIN tagsBefore
        /\ tagsBefore[calls[i].target] # NoTags}

\* C32: when the read of the bucket's existing tags fails with an error other than
\* NoSuchTagSet, tag_s3_bucket raises without issuing put_bucket_tagging and the
\* bucket's tag collection is left as it was.
C32_ReadFailureLeavesTags ==
    event # None =>
        \A i \in FailedReads :
            /\ \A j \in 1..Len(calls) : calls[j].op # "s3.put_bucket_tagging"
            /\ \E j \in 1..Len(calls) :
                  /\ calls[j].kind = "applicator"
                  /\ calls[j].op = "tag_s3_bucket"
                  /\ ~calls[j].ok
            /\ awsTags[calls[i].target] = tagsBefore[calls[i].target]
            /\ Returned("error")

C32_Witness ==
    /\ event # None
    /\ FailedReads # {}
    /\ Returned("error")
    /\ result.value.error.operation = "s3.get_bucket_tagging"
    /\ awsTags = tagsBefore

\* positions in calls of the applicator invocations
ApplicatorPositions == {i \in 1..Len(calls) : calls[i].kind = "applicator"}

\* C33: no applicator changes the tag set it is given and no dispatch changes
\* CONFIG['default_tags']: every resource of an event is tagged with the same tag
\* set, the one the result reports, every upsert call sends exactly that set, and
\* the static defaults are after every dispatch what they were at load.
C33_TagSetUntouched ==
    /\ defaultTags = default_tags
    /\ event # None =>
          /\ \A i, j \in ApplicatorPositions : calls[i].tags = calls[j].tags
          /\ \A i \in TaggingCalls :
                calls[i].op # "s3.put_bucket_tagging" =>
                    \A j \in ApplicatorPositions : calls[i].tags = calls[j].tags
          /\ Returned("success") =>
                \A i \in ApplicatorPositions : calls[i].tags = result.value.tags_applied

\* a later dispatch of the process tagged three instances with one tag set
C33_Witness ==
    /\ clock = 2
    /\ event # None
    /\ Returned("success")
    /\ Cardinality(ApplicatorPositions) = 3
    /\ defaultTags = default_tags
    /\ \A k \in DOMAIN default_tags : result.value.tags_applied[k] = default_tags[k]

-----------------------------------------------------------------------------
(* The provisioner's methods, step by step *)

\* the call that has not returned yet is one of method op
Calling(op) == history # <<>> /\ history[1].op = op

\* the stage of delete_user an IAM operation belongs to
DeleteStage(op) ==
    CASE op \in {"list_groups_for_user", "remove_user_from_group"} -> 1
      [] op \in {"list_attached_user_policies", "detach_user_policy"} -> 2
      [] op \in {"list_user_policies", "delete_user_policy"} -> 3
      [] op \in {"list_access_keys", "delete_access_key"} -> 4
      [] op \in {"list_mfa_devices", "deactivate_mfa_device",
                 "delete_virtual_mfa_device"} -> 5
      [] op = "delete_login_profile" -> 6
      [] op = "delete_user" -> 7

\* C34: delete_user calls iam.delete_user last, after the stages that remove group
\* memberships, attached policies, inline policies, access keys, MFA devices and the
\* login profile, in that order, when none of these is left; a step that fails,
\* other than a missing login profile, makes delete_user raise with the IAM user
\* still there.
C34_DeleteUserLast ==
    Calling("delete_user") =>
        LET c == history[1]
            n == Len(c.trace)
        IN /\ \A i, j \in 1..n : i < j => DeleteStage(c.trace[i]) <= DeleteStage(c.trace[j])
           /\ \A i \in 1..n :
                 c.trace[i] = "delete_user" =>
                     /\ i = n
                     /\ {DeleteStage(c.trace[j]) : j \in 1..(i - 1)} = 1..6
                     /\ GroupsOf(c.path[i - 1], c.username) = {}
                     /\ AttachedTo(c.path[i - 1], c.username) = {}
                     /\ InlineOf(c.path[i - 1], c.username) = {}
                     /\ KeysOf(c.path[i - 1], c.username) = {}
                     /\ DevicesOf(c.path[i - 1], c.username) = {}
                     /\ c.username \notin c.path[i - 1].login
           /\ (c.fail # "" /\ c.fail \in Elems(c.trace)) => c.raised
           /\ (c.raised /\ c.username \in c.before.users) => c.username \in c.after.users
           /\ (c.fail = "" /\ c.username \in c.before.users) =>
                 ~c.raised /\ c.username \notin c.after.users

\* the deletion of an access key was rejected: delete_user raised after the groups
\* and policies were removed, and the user is still there
C34_Witness ==
    /\ Calling("delete_user")
    /\ history[1].fail = "delete_access_key"
    /\ history[1].raised
    /\ GroupsOf(history[1].before, history[1].username) # {}
    /\ GroupsOf(iam, history[1].username) = {}
    /\ history[1].username \in iam.users

\* positions in the trace of the last call at which op was called
CallsOf(op) == {i \in 1..Len(history[1].trace) : history[1].trace[i] = op}

\* C35: rotate_access_keys creates the new key before it deletes any: every
\* delete_access_key of a rotation follows its create_access_key, after no call of
\* the rotation does the user hold fewer keys than before it, and when the key
\* cannot be created no key is deleted and the user's keys are what they were.
C35_CreateBeforeDelete ==
    Calling("rotate_access_keys") =>
        LET c == history[1]
            held == Cardinality(KeysOf(c.before, c.username))
        IN /\ \A d \in CallsOf("delete_access_key") :
                 \E n \in CallsOf("create_access_key") :
                     /\ n < d
                     /\ Cardinality(KeysOf(c.path[n], c.username)) = held + 1
           /\ \A i \in 1..Len(c.path) : Cardinality(KeysOf(c.path[i], c.username)) >= held
           /\ (c.raised /\ c.trace[Len(c.trace)] \in {"list_access_keys", "create_access_key"}) =>
                 /\ CallsOf("delete_access_key") = {}
                 /\ c.after.keys = c.before.keys

\* a rotation replaced an old key: the new key was created and the old one deleted
C35_Witness ==
    /\ Calling("rotate_access_keys")
    /\ ~history[1].raised
    /\ CallsOf("delete_access_key") # {}
    /\ Cardinality(KeysOf(iam, history[1].username))
          = Cardinality(KeysOf(history[1].before, history[1].username))

\* a key's age exceeds one day
OlderThanADay(key) == key.age > HalfDaysPerDay

\* C36: a rotation that completes deletes every key that existed before it and is
\* older than one day, keeps every key that existed before it and is at most one
\* day old, and keeps the key it created.
C36_OneDayGrace ==
    (Calling("rotate_access_keys") /\ ~history[1].raised) =>
        LET c == history[1]
            ids == {k.id : k \in KeysOf(c.after, c.username)}
        IN /\ \A k \in KeysOf(c.before, c.username) :
                 /\ OlderThanADay(k) => k.id \notin ids
                 /\ ~OlderThanADay(k) => k.id \in ids
           /\ c.value.access_key_id \in ids

\* C37: create_user for a username that exists raises after its first IAM call and
\* leaves the account as it was: no membership, policy attachment, login profile
\* or access key is created or changed, and no USER_CREATED audit entry is written.
C37_ExistingUserUntouched ==
    (Calling("create_user") /\ history[1].username \in history[1].before.users) =>
        /\ history[1].raised
        /\ history[1].trace = <<"create_user">>
        /\ history[1].after = history[1].before
        /\ history[1].audit = <<>>

\* the existing user was given groups, console and programmatic access in the call
C37_Witness ==
    /\ Calling("create_user")
    /\ history[1].username \in history[1].before.users
    /\ history[1].exc = "EntityAlreadyExists"
    /\ history[1].args.groups # <<>>
    /\ history[1].args.console_access
    /\ history[1].args.programmatic_access
    /\ GroupsOf(iam, history[1].username) = {}
    /\ iam = history[1].before

\* the memberships and attachments create_user makes for its arguments
MadeFor(c) ==
    [memberships |-> {<<c.username, g>> : g \in Elems(c.args.groups) \cap ExistingGroups},
     attached    |-> {<<c.username, q>> : q \in Elems(c.args.policies) \cap ManagedPolicies}]

\* C38: create_user does not roll back.  When create_login_profile or
\* create_access_key fails, create_user raises and the IAM user, the group
\* memberships and the policy attachments made before stay in place; a missing
\* group or a failed policy attachment is skipped and the creation goes on to its
\* end.
C38_NoRollback ==
    (Calling("create_user") /\ history[1].username \notin history[1].before.users) =>
        LET c == history[1]
        IN /\ (c.fail \in {"create_login_profile", "create_access_key"}
                  /\ c.fail \in Elems(c.trace)) =>
                 /\ c.raised
                 /\ c.audit = <<>>
                 /\ c.username \in c.after.users
                 /\ MadeFor(c).memberships \subseteq c.after.memberships
                 /\ MadeFor(c).attached \subseteq c.after.attached
           /\ c.fail = "" =>
                 /\ ~c.raised
                 /\ c.after.memberships = c.before.memberships \cup MadeFor(c).memberships
                 /\ c.after.attached = c.before.attached \cup MadeFor(c).attached
           /\ c.fail = "attach_user_policy" =>
                 /\ ~c.raised
                 /\ c.after.attached = c.before.attached
           /\ ~c.raised =>
                 /\ c.username \in c.after.users
                 /\ c.args.console_access <=> c.username \in c.after.login
                 /\ c.args.programmatic_access <=> KeysOf(c.after, c.username) # {}
                 /\ c.audit = <<"USER_CREATED">>

\* the access key could not be created: the user, its group and its policy remain
C38_Witness ==
    /\ Calling("create_user")
    /\ history[1].fail = "create_access_key"
    /\ history[1].raised
    /\ history[1].username \in iam.users
    /\ history[1].username \notin history[1].before.users
    /\ GroupsOf(iam, history[1].username) = {"ReadOnly"}
    /\ AttachedTo(iam, history[1].username) = {"ReadOnlyAccess"}
    /\ "Missing" \in Elems(history[1].args.groups)

\* C39: when offboard_user returns with access_disabled = True, every access key
\* of the user is Inactive and the user is in no group; delete_user is called only
\* when remove_after_days is not positive, and then the user is gone; otherwise
\* the user still exists and scheduled_deletion is recorded.
C39_OffboardDisablesAccess ==
    (Calling("offboard_user") /\ ~history[1].raised) =>
        LET c == history[1]
        IN /\ c.value.access_disabled =>
                 /\ \A k \in KeysOf(c.after, c.username) : ~k.active
                 /\ GroupsOf(c.after, c.username) = {}
                 /\ c.args.remove_after_days > 0 =>
                       /\ c.username \in c.after.users
                       /\ c.value.scheduled_deletion
                       /\ ~c.value.deleted
                 /\ ~(c.args.remove_after_days > 0) =>
                       /\ c.username \notin c.after.users
                       /\ c.value.deleted
           /\ "delete_user" \in Elems(c.trace) => ~(c.args.remove_after_days > 0)
           /\ c.args.remove_after_days > 0 => c.after.users = c.before.users

\* a user with an active key and a group was offboarded for later deletion
C39_Witness ==
    /\ Calling("offboard_user")
    /\ ~history[1].raised
    /\ history[1].value.access_disabled
    /\ history[1].args.remove_after_days > 0
    /\ \E k \in KeysOf(history[1].before, history[1].username) : k.active
    /\ GroupsOf(history[1].before, history[1].username) # {}
    /\ KeysOf(iam, history[1].username) # {}
    /\ \A k \in KeysOf(iam, history[1].username) : ~k.active
    /\ history[1].username \in iam.users

-----------------------------------------------------------------------------
(* The cleanup script *)

\* the calls of the run that remove something
CleanupRemovals == CleanupOperations \ {"cloudtrail.describe_trails"}

\* the label the run records for a failed removal of the resource op belongs to
ErrorLabel(op) ==
    CASE op \in {"events.remove_targets", "events.delete_rule"} -> "CloudWatch rule"
      [] op = "lambda.delete_function" -> "Lambda function"
      [] op = "iam.delete_role_policy" -> "IAM policy"
      [] op = "iam.delete_role" -> "IAM role"
      [] op \in {"cloudtrail.stop_logging", "cloudtrail.delete_trail"} -> "CloudTrail"

\* the error with which a service says the resource is not there
NotFound == {"ResourceNotFoundException", "NoSuchEntity"}

CleanupCalled == {cleaned.calls[i].op : i \in 1..Len(cleaned.calls)}

\* C40: cleanup removes nothing without confirmation.  Unless the first answer is
\* 'yes' no call is issued; the trail is stopped and deleted only after a second
\* 'yes'; once confirmed, every removal that fails is recorded in errors and the
\* removal of the rule, the function, the policy and the role and the look at the
\* trail are all attempted.
C40_ConfirmedCleanup ==
    cleaned.done =>
        /\ Lower(cleaned.answers[1]) # "yes" =>
              /\ cleaned.calls = <<>>
              /\ cleaned.present = cleaned.deployment
        /\ (CleanupCalled \cap {"cloudtrail.stop_logging", "cloudtrail.delete_trail"} # {}) =>
              /\ Len(cleaned.answers) = 2
              /\ Lower(cleaned.answers[2]) = "yes"
        /\ Lower(cleaned.answers[1]) = "yes" =>
              /\ \A i \in 1..Len(cleaned.calls) :
                    (/\ cleaned.calls[i].op \in CleanupRemovals
                     /\ cleaned.calls[i].exc \notin NotFound \cup {""}) =>
                        \E j \in 1..Len(cleaned.errors) :
                            cleaned.errors[j] = ErrorLabel(cleaned.calls[i].op)
              /\ {"events.remove_targets", "lambda.delete_function",
                   "iam.delete_role_policy", "iam.delete_role",
                   "cloudtrail.describe_trails"} \subseteq CleanupCalled

====
